---------------------------- MODULE Spec2Model ----------------------------
(***************************************************************************)
(* Model of the ai-chat-widget session runtime:                            *)
(*   - MemoryWindow            (src/src/core/MemoryWindow.ts)              *)
(*   - StreamingEngine         (src/unnamed/part_003)                      *)
(*   - ConversationOrchestrator (src/src/core/ConversationOrchestrator.ts) *)
(*   - PromptEngine.compose    (src/src/core/PromptEngine.ts)              *)
(*   - PluginManager           (src/src/plugins/PluginManager.ts)          *)
(*   - the adapters' stream()  (src/src/providers, src/unnamed/part_001)   *)
(*                                                                         *)
(* Texts are sequences of characters, so that length (token estimation)    *)
(* and concatenation (stream accumulation) are computed, not assumed.      *)
(***************************************************************************)
EXTENDS Integers, Sequences, FiniteSets, TLC

----------------------------------------------------------------------------
(* Bounds of the model *)

\* message ids offered to the window operations (ids may repeat)
MaxId == 2
\* appends to one window between two clear() calls, and the longest
\* transcript a window is driven to
MaxAppends == 2
\* length of the list handed to pinMessages
MaxPinned == 1
\* largest maxMessages a configuration is given (0 is included)
MaxCap == 2
\* largest maxTokens a configuration is given (0 disables trimming)
MaxTokens == 2
\* setSystemPrompt calls recorded on one window
MaxPromptCalls == 3
\* turns (sendMessage calls) issued to one orchestrator
MaxTurns == 2
\* events (chunks, or a thrown error) one adapter stream can produce
MaxChunks == 2
\* plugins of one chain whose hooks differ in what they do
MaxHooks == 2
\* cancel() calls counted on one orchestrator
MaxCancels == 2
\* lines of one response body
MaxLines == 2
\* turns issued to the orchestrator whose every call is resumed
MaxLiveTurns == 1

----------------------------------------------------------------------------
(* Texts *)

\* a text of n characters
Xs(n) == [i \in 1..n |-> "x"]

\* prompts offered to setSystemPrompt: the empty string, a 4-char prompt
\* (1 token) and a 5-char prompt (2 tokens)
PromptTexts == {<< >>, Xs(4), Xs(5)}

\* the content a message of each id is offered with
WinText(i) == IF i % 2 = 1 THEN Xs(1) ELSE Xs(5)

\* messages offered to addMessage / addMessages / pinMessages: one per id,
\* and a second message of id 1 with another content
WinMsgs ==
    {[id |-> i, role |-> "user", content |-> WinText(i)] : i \in 1..MaxId}
        \cup {[id |-> 1, role |-> "user", content |-> Xs(5)]}

\* systemPrompt?: string -- undefined, or a string (possibly empty)
NoPrompt == [set |-> FALSE, text |-> << >>]

SomePrompt(t) == [set |-> TRUE, text |-> t]

\* JavaScript truthiness of `this.systemPrompt`: undefined and '' are falsy
Truthy(p) == p.set /\ p.text # << >>

SeqsUpTo(S, n) == UNION {[1..k -> S] : k \in 0..n}

Min(a, b) == IF a <= b THEN a ELSE b

----------------------------------------------------------------------------
(* State *)

VARIABLES
    messages,        \* MemoryWindow.messages (the transcript)
    pinnedMessages,  \* MemoryWindow.pinnedMessages
    systemPrompt,    \* MemoryWindow.systemPrompt
    config,          \* MemoryWindow.config
    appended,        \* history: every message appended since construction / clear()
    capChanged,      \* history: maxMessages was changed by updateConfig
    promptCalls,     \* history: arguments of the setSystemPrompt calls, with the lock flag seen
    orch,            \* ConversationOrchestrator.config / plugins: provider registered, afterReceive hooks, persistence
    pc,              \* position of the sendMessage call: "idle", "composing", "streaming"
    turn,            \* number of sendMessage calls made so far
    abortController, \* StreamingEngine.abortController: "none" (undefined), "live", "aborted"
    accumulatedContent, \* StreamingEngine.accumulatedContent
    currentMessage,  \* StreamingEngine.currentMessage
    stream,          \* history: the events the adapter's stream of this turn has produced
    completions,     \* streamHandler.onComplete calls suspended at an await
    recent,          \* PersistenceLayer: the snapshot last written by saveRecentSession
    before,          \* history: the transcript when the turn began
    foreign,         \* history: an onComplete of another turn appended to the transcript since the turn began
    cancelledAt,     \* history: chunks applied when cancel() aborted this turn's stream, -1 if it did not
    outcome,         \* history: how the last sendMessage call settled
    calls,           \* history: callback invocations, per turn
    thrown,          \* history: what was thrown inside each sendMessage call, "none" if nothing
    hooks,           \* ConversationOrchestrator.plugins: what the afterReceive hook of each plugin does
    cancels,         \* history: number of cancel() calls
    inflight,        \* position of each sendMessage call when calls overlap
    plugins,         \* PromptEngineConfig.plugins: what the beforeSend hook of each plugin does
    composeAt,       \* PromptEngine.compose: index of the next plugin of the loop
    processedContext, \* PromptEngine.compose: processedContext
    composed,        \* history: the context handed to the first beforeSend hook
    pmAt,            \* PluginManager.executeBeforeSend: index of the next plugin of the loop
    pmResult,        \* PluginManager.executeBeforeSend: result
    provider,        \* the adapter whose stream() is running
    wire,            \* bytes of the response body not yet returned by reader.read()
    buffer,          \* stream(): buffer
    yielded,         \* history: the chunks stream() has yielded
    sse,             \* position of stream(): "reading", "returned" (after [DONE]), "ended"
    lines,           \* history: the lines of the response body
    terminated,      \* history: the last line of the response body ends with a newline
    pending,         \* TextDecoder: the bytes of an incomplete character held for the next read
    storage,         \* the browser's stores: whether localStorage.setItem throws, whether the IndexedDB put fails
    composedMessages, \* sendMessage: composedMessages, the list handed to formatForProvider
    vendor,          \* config.provider.provider
    formattedMessages, \* sendMessage: formattedMessages, the list handed to the adapter
    body,            \* ClaudeProvider.stream: body, the request that is sent
    fstep,           \* position of the request: "composed", "formatted", "sent"
    signal,          \* SendMessageOptions.signal of the caller: "none" (not given), "live", "aborted"
    adapterSignal,   \* history: the signal handed to provider.stream in this turn
    delivered,       \* history: the strings passed to the caller's onChunk in this turn, in order
    sessionId,       \* OrchestratorConfig.sessionId, "none" if not configured
    saved            \* PersistenceLayer: the ids of the conversations stored by saveConversation

wvars == <<messages, pinnedMessages, systemPrompt, config>>

whist == <<appended, capChanged>>

evars == <<abortController, accumulatedContent, currentMessage>>

tvars == <<orch, pc, turn, abortController, accumulatedContent, currentMessage, stream,
           completions, recent, before, foreign, cancelledAt, outcome, calls, thrown>>

\* the plugin chain, the cancel() count and the overlapping calls
hvars == <<hooks, cancels, inflight>>

\* PromptEngine.compose and PluginManager.executeBeforeSend
cvars == <<plugins, composeAt, processedContext, composed, pmAt, pmResult>>

\* an adapter's stream()
svars == <<provider, wire, buffer, yielded, sse, lines, terminated, pending>>

\* the stores, and the shaping of the outgoing message list
fvars == <<storage, composedMessages, vendor, formattedMessages, body, fstep>>

xvars == <<hvars, cvars, svars, fvars>>

\* the caller's signal, what the adapter and the caller's onChunk were given,
\* and the stored sessions
gvars == <<signal, adapterSignal, delivered, sessionId, saved>>

vars == <<messages, pinnedMessages, systemPrompt, config, appended, capChanged, promptCalls,
          orch, pc, turn, abortController, accumulatedContent, currentMessage, stream,
          completions, recent, before, foreign, cancelledAt, outcome, calls,
          thrown, hooks, cancels, inflight, plugins, composeAt, processedContext, composed, pmAt, pmResult,
          provider, wire, buffer, yielded, sse, lines, terminated, pending,
          storage, composedMessages, vendor, formattedMessages, body, fstep,
          signal, adapterSignal, delivered, sessionId, saved>>

----------------------------------------------------------------------------
(* MemoryWindow: pure parts *)

\* Array.prototype.slice(-n) for n >= 0; slice(-0) is slice(0): the whole array
SliceLast(s, n) ==
    IF n = 0 \/ n >= Len(s) THEN s
    ELSE SubSeq(s, Len(s) - n + 1, Len(s))

\* a trim that keeps the oldest entries instead of the newest
TrimKeepsOldest(msgs, maxMessages) ==
    IF Len(msgs) > maxMessages /\ maxMessages > 0 THEN SubSeq(msgs, 1, maxMessages) ELSE msgs

\* MemoryWindow.trim
Trim(msgs, maxMessages) ==
    IF Len(msgs) > maxMessages THEN SliceLast(msgs, maxMessages) ELSE msgs

\* MemoryWindow.estimateTokens: Math.ceil(text.length / 4)
estimateTokens(text) == (Len(text) + 3) \div 4

RECURSIVE Cost(_)
\* the summed estimate of a list
Cost(s) == IF s = << >> THEN 0 ELSE estimateTokens(Head(s).content) + Cost(Tail(s))

RECURSIVE DedupKeepsLastFrom(_, _)
DedupKeepsLastFrom(s, i) ==
    IF i > Len(s) THEN << >>
    ELSE IF \E j \in (i + 1)..Len(s) : s[j].id = s[i].id THEN DedupKeepsLastFrom(s, i + 1)
    ELSE <<s[i]>> \o DedupKeepsLastFrom(s, i + 1)

\* a filter that keeps the last message of each id instead of the first
DedupKeepsLast(s) == DedupKeepsLastFrom(s, 1)

RECURSIVE DedupFrom(_, _, _)
DedupFrom(s, i, seen) ==
    IF i > Len(s) THEN << >>
    ELSE IF s[i].id \in seen THEN DedupFrom(s, i + 1, seen)
    ELSE <<s[i]>> \o DedupFrom(s, i + 1, seen \cup {s[i].id})

\* the `seen` filter of getContext: the first message of each id is kept
Dedup(s) == DedupFrom(s, 1, {})

\* the loop of trimByTokens: number of messages, counted from the newest,
\* that are taken before the first one that does not fit
RECURSIVE FitCount(_, _, _, _)
FitCount(msgs, i, total, maxTokens) ==
    IF i = 0 THEN 0
    ELSE IF total + estimateTokens(msgs[i].content) <= maxTokens
         THEN 1 + FitCount(msgs, i - 1, total + estimateTokens(msgs[i].content), maxTokens)
         ELSE 0

\* a trimByTokens whose loop goes on to older messages after one that does not fit
trimByTokensSkipping(msgs, prompt, maxTokens) ==
    IF maxTokens <= 0 THEN msgs
    ELSE LET start == IF Truthy(prompt) THEN estimateTokens(prompt.text) ELSE 0
             k     == FitCount(msgs, Len(msgs), start, maxTokens)
             older == IF Len(msgs) - k - 1 <= 0 THEN 0
                      ELSE FitCount(msgs, Len(msgs) - k - 1,
                                    start + Cost(SubSeq(msgs, Len(msgs) - k + 1, Len(msgs))),
                                    maxTokens)
             result == SubSeq(msgs, Len(msgs) - k - older, Len(msgs) - k - 1)
                           \o SubSeq(msgs, Len(msgs) - k + 1, Len(msgs))
         IN IF Len(result) > 0 THEN result
            ELSE IF Len(msgs) = 0 THEN << >> ELSE SubSeq(msgs, Len(msgs), Len(msgs))

\* a trimByTokens that returns the loop's result without the last-message fallback
trimByTokensNoFallback(msgs, prompt, maxTokens) ==
    IF maxTokens <= 0 THEN msgs
    ELSE LET start == IF Truthy(prompt) THEN estimateTokens(prompt.text) ELSE 0
             k     == FitCount(msgs, Len(msgs), start, maxTokens)
         IN SubSeq(msgs, Len(msgs) - k + 1, Len(msgs))

\* a trimByTokens that does not count the system prompt against the budget
trimByTokensIgnoresPrompt(msgs, prompt, maxTokens) ==
    IF maxTokens <= 0 THEN msgs
    ELSE LET k     == FitCount(msgs, Len(msgs), 0, maxTokens)
             result == SubSeq(msgs, Len(msgs) - k + 1, Len(msgs))
         IN IF Len(result) > 0 THEN result
            ELSE IF Len(msgs) = 0 THEN << >> ELSE SubSeq(msgs, Len(msgs), Len(msgs))

\* MemoryWindow.trimByTokens
trimByTokens(msgs, prompt, maxTokens) ==
    IF maxTokens <= 0 THEN msgs
    ELSE LET start == IF Truthy(prompt) THEN estimateTokens(prompt.text) ELSE 0
             k     == FitCount(msgs, Len(msgs), start, maxTokens)
             result == SubSeq(msgs, Len(msgs) - k + 1, Len(msgs))
         IN IF Len(result) > 0 THEN result
            ELSE IF Len(msgs) = 0 THEN << >> ELSE SubSeq(msgs, Len(msgs), Len(msgs))

\* MemoryWindow.getContext, the messages of the returned context
getContextMessages(msgs, pinned, prompt, cfg) ==
    LET result == pinned \o SliceLast(msgs, cfg.maxMessages)
        unique == Dedup(result)
    IN IF cfg.maxTokens > 0 THEN trimByTokens(unique, prompt, cfg.maxTokens)
       ELSE unique

\* MemoryWindow.getContext, the systemPrompt of the returned context
getContextPrompt(prompt) == IF Truthy(prompt) THEN prompt ELSE NoPrompt

\* the context the window returns in the current state
Sendable == getContextMessages(messages, pinnedMessages, systemPrompt, config)

\* MemoryWindow.getAllMessages
getAllMessages == messages

----------------------------------------------------------------------------
(* MemoryWindow: operations *)

\* MemoryConfig. enableSummarization keeps its default: the two branches it
\* selects between in trimByTokens are the same `break`
Configs == [maxMessages : 0..MaxCap, maxTokens : 0..MaxTokens,
            enableSummarization : {FALSE}, systemPromptLocked : BOOLEAN]

\* Message | null: the null of StreamingEngine.currentMessage
NoMessage == [id |-> 0, role |-> "none", content |-> << >>, tool_calls |-> 0]

NoOutcome == [kind |-> "none", exit |-> "none", turn |-> 0, msg |-> NoMessage, err |-> "none"]

\* PluginContext | undefined: the undefined
NoContext == [defined |-> FALSE, messages |-> << >>, systemPrompt |-> NoPrompt]

\* n plugins whose afterReceive hook returns the response it was given
SameHooks(n) == [i \in 1..n |-> "same"]

\* new StreamingEngine(), new PersistenceLayer() and the call-free orchestrator
\* built by new ConversationOrchestrator(o)
OrchInit(o) ==
    /\ orch = o
    /\ pc = "idle"
    /\ turn = 0
    /\ abortController = "none"
    /\ accumulatedContent = << >>
    /\ currentMessage = NoMessage
    /\ stream = << >>
    /\ completions = << >>
    /\ recent = << >>
    /\ before = << >>
    /\ foreign = FALSE
    /\ cancelledAt = -1
    /\ outcome = NoOutcome
    /\ calls = [t \in 1..MaxTurns |-> [handlerComplete |-> 0, complete |-> 0, error |-> 0, errors |-> {}]]
    /\ thrown = [t \in 1..MaxTurns |-> "none"]
    /\ cancels = 0
    /\ inflight = [c \in 1..MaxTurns |-> "idle"]

\* new MemoryWindow(config)
WindowInit ==
    /\ messages = << >>
    /\ pinnedMessages = << >>
    /\ systemPrompt = NoPrompt
    /\ config \in Configs
    /\ appended = << >>
    /\ capChanged = FALSE
    /\ promptCalls = << >>

\* MemoryWindow.setSystemPrompt
setSystemPrompt(p) ==
    /\ systemPrompt' = IF ~config.systemPromptLocked \/ ~Truthy(systemPrompt)
                       THEN SomePrompt(p) ELSE systemPrompt
    /\ UNCHANGED <<messages, pinnedMessages, config>>

\* MemoryWindow.pinMessages
pinMessages(ms) ==
    /\ pinnedMessages' = ms
    /\ UNCHANGED <<messages, systemPrompt, config>>

\* MemoryWindow.addMessage
addMessage(m) ==
    /\ messages' = Trim(Append(messages, m), config.maxMessages)
    /\ UNCHANGED <<pinnedMessages, systemPrompt, config>>

\* MemoryWindow.addMessages
addMessages(ms) ==
    /\ messages' = Trim(messages \o ms, config.maxMessages)
    /\ UNCHANGED <<pinnedMessages, systemPrompt, config>>

\* MemoryWindow.clear
clear ==
    /\ messages' = << >>
    /\ UNCHANGED <<pinnedMessages, systemPrompt, config>>

\* MemoryWindow.updateConfig
updateConfig(c) ==
    /\ config' = c
    /\ messages' = Trim(messages, c.maxMessages)
    /\ UNCHANGED <<pinnedMessages, systemPrompt>>

----------------------------------------------------------------------------
(* The window driven by a caller *)

WSetSystemPrompt ==
    \E p \in PromptTexts :
        /\ setSystemPrompt(p)
        /\ UNCHANGED <<xvars, gvars, whist, promptCalls, tvars>>

WPinMessages ==
    \E ms \in SeqsUpTo(WinMsgs, MaxPinned) :
        /\ pinMessages(ms)
        /\ UNCHANGED <<xvars, gvars, whist, promptCalls, tvars>>

WAddMessage ==
    \E m \in WinMsgs :
        /\ Len(messages) < MaxAppends
        /\ addMessage(m)
        /\ UNCHANGED <<xvars, gvars, whist, promptCalls, tvars>>

WAddMessages ==
    \E ms \in SeqsUpTo(WinMsgs, 2) :
        /\ Len(messages) + Len(ms) <= MaxAppends
        /\ addMessages(ms)
        /\ UNCHANGED <<xvars, gvars, whist, promptCalls, tvars>>

WClear ==
    /\ clear
    /\ UNCHANGED <<xvars, gvars, whist, promptCalls, tvars>>

\* updateConfig(partial): one field of the configuration is replaced
WUpdateConfig ==
    \E c \in Configs :
        /\ \/ c = [config EXCEPT !.maxMessages = c.maxMessages]
           \/ c = [config EXCEPT !.maxTokens = c.maxTokens]
           \/ c = [config EXCEPT !.systemPromptLocked = c.systemPromptLocked]
        /\ updateConfig(c)
        /\ UNCHANGED <<xvars, gvars, whist, promptCalls, tvars>>

WindowNext ==
    \/ WSetSystemPrompt
    \/ WPinMessages
    \/ WAddMessage
    \/ WAddMessages
    \/ WClear
    \/ WUpdateConfig

\* the orchestrator around a window that is driven directly: never called
NoOrch ==
    /\ OrchInit([providerKnown |-> TRUE, afterHooks |-> 0, persistence |-> FALSE])
    /\ hooks = << >>

\* no compose() and no executeBeforeSend() call is running
NoCompose ==
    /\ plugins = << >>
    /\ composeAt = 0
    /\ processedContext = NoContext
    /\ composed = NoContext
    /\ pmAt = 0
    /\ pmResult = NoContext

\* no adapter stream() is running
NoSSE ==
    /\ provider = "none"
    /\ wire = << >>
    /\ buffer = << >>
    /\ yielded = << >>
    /\ sse = "ended"
    /\ lines = << >>
    /\ terminated = TRUE
    /\ pending = << >>

\* localStorage.setItem and the IndexedDB put both succeed
StorageWorks == [local |-> "ok", db |-> "ok"]

\* a request body not built yet
NoBody == [messages |-> << >>, system |-> NoPrompt]

\* no message list is being shaped for an adapter
NoFormat ==
    /\ composedMessages = << >>
    /\ vendor = "none"
    /\ formattedMessages = << >>
    /\ body = NoBody
    /\ fstep = "sent"

\* `signal` of SendMessageOptions when the caller gives none, and
\* `sessionId` of OrchestratorConfig when none is configured
NoSignal == [kind |-> "undefined", of |-> 0]

NoSessionId == "none"

\* a caller that passes no signal, an orchestrator without a configured
\* sessionId, nothing delivered and nothing stored yet
NoSession ==
    /\ signal = "none"
    /\ adapterSignal = NoSignal
    /\ delivered = << >>
    /\ sessionId = NoSessionId
    /\ saved = {}

WInit == WindowInit /\ NoOrch /\ NoCompose /\ NoSSE /\ NoSession
             /\ storage = StorageWorks /\ NoFormat

SpecWindow == WInit /\ [][WindowNext]_vars

----------------------------------------------------------------------------
(* The transcript of a window, every append recorded *)

AAddMessage ==
    \E m \in WinMsgs :
        /\ Len(appended) < MaxAppends
        /\ addMessage(m)
        /\ appended' = Append(appended, m)
        /\ UNCHANGED <<xvars, gvars, capChanged, promptCalls, tvars>>

AAddMessages ==
    \E ms \in SeqsUpTo(WinMsgs, 2) :
        /\ Len(appended) + Len(ms) <= MaxAppends
        /\ addMessages(ms)
        /\ appended' = appended \o ms
        /\ UNCHANGED <<xvars, gvars, capChanged, promptCalls, tvars>>

\* updateConfig({maxMessages: n})
AUpdateCap ==
    \E n \in 0..MaxCap :
        /\ updateConfig([config EXCEPT !.maxMessages = n])
        /\ capChanged' = (capChanged \/ n # config.maxMessages)
        /\ UNCHANGED <<xvars, gvars, appended, promptCalls, tvars>>

AClear ==
    /\ clear
    /\ appended' = << >>
    /\ capChanged' = FALSE
    /\ UNCHANGED <<xvars, gvars, promptCalls, tvars>>

AppendNext == AAddMessage \/ AAddMessages \/ AUpdateCap \/ AClear

AInit == WindowInit /\ config.systemPromptLocked /\ NoOrch /\ NoCompose /\ NoSSE /\ NoSession
             /\ storage = StorageWorks /\ NoFormat

SpecAppend == AInit /\ [][AppendNext]_vars

----------------------------------------------------------------------------
(* The system prompt of a window, every setSystemPrompt call recorded *)

PSetSystemPrompt ==
    \E p \in PromptTexts :
        /\ Len(promptCalls) < MaxPromptCalls
        /\ setSystemPrompt(p)
        /\ promptCalls' = Append(promptCalls, [p |-> p, locked |-> config.systemPromptLocked])
        /\ UNCHANGED <<xvars, gvars, whist, tvars>>

\* updateConfig({systemPromptLocked: b})
PSetLock ==
    \E b \in BOOLEAN :
        /\ updateConfig([config EXCEPT !.systemPromptLocked = b])
        /\ UNCHANGED <<xvars, gvars, whist, promptCalls, tvars>>

PromptNext == PSetSystemPrompt \/ PSetLock

PInit ==
    /\ WindowInit
    /\ config.maxMessages = MaxCap
    /\ config.maxTokens = MaxTokens
    /\ NoOrch
    /\ NoCompose
    /\ NoSSE /\ NoSession
    /\ storage = StorageWorks
    /\ NoFormat

SpecPrompt == PInit /\ [][PromptNext]_vars

----------------------------------------------------------------------------
(* StreamingEngine and ConversationOrchestrator: one turn at a time *)

\* ids of the messages a turn creates (`msg-${Date.now()}-${random}`: fresh)
UserId(t) == 2 * t - 1

AsstId(t) == 2 * t

\* texts a caller submits to sendMessage
UserTexts == {<<"q">>}

\* StreamChunk; an absent content is the empty text, an absent toolCalls is 0,
\* an absent finishReason is "none"
Chunk(content, tools, fin, done) ==
    [kind |-> "chunk", content |-> content, tools |-> tools, fin |-> fin, done |-> done]

\* the adapter's stream throws instead of yielding
ErrorEvent == [kind |-> "error", content |-> << >>, tools |-> 0, fin |-> "none", done |-> FALSE]

\* the chunks a stream can yield: a text delta, a tool-call delta, the
\* end-of-stream sentinel, and a last delta that carries a finish reason
Chunks ==
    { Chunk(<<"a">>, 0, "none", FALSE),
      Chunk(<< >>, 1, "none", FALSE),
      Chunk(<< >>, 0, "none", TRUE),
      Chunk(<<"b">>, 0, "stop", FALSE) }

\* `chunk.done || chunk.finishReason`
IsTerminal(c) == c.done \/ c.fin # "none"

\* an engine that never looks at the abort signal
AbortIgnored(ac) == FALSE

\* `this.abortController?.signal.aborted` at the top of the loop body
AbortObserved(ac) == ac = "aborted"

\* an engine that puts the new text in front of the accumulated text
AccumulateInFront(acc, c) == IF c.content # << >> THEN c.content \o acc ELSE acc

\* `this.accumulatedContent += chunk.content` under `if (chunk.content)`
Accumulate(acc, c) == IF c.content # << >> THEN acc \o c.content ELSE acc

\* the loop body's writes to this.currentMessage for one chunk
ApplyToMessage(msg, acc, c) ==
    [msg EXCEPT !.content = IF c.content # << >> \/ IsTerminal(c) THEN Accumulate(acc, c) ELSE @,
                !.tool_calls = IF c.tools # 0 THEN c.tools ELSE @]

Bump(t, field) == calls' = [calls EXCEPT ![t][field] = @ + 1]

\* what an afterReceive hook does with `{ ...pluginContext, response }`:
\* return the response, return a rewritten copy of it, throw, or return nothing
HookKinds == {"same", "rewrite", "throws", "nothing"}

\* `response.content` as a hook reads it; on an object without a content
\* field the read gives undefined, which `+` turns into the text "undefined"
ContentRead(m) == IF m.role = "none" THEN <<"undefined">> ELSE m.content

\* the context object `{ messages, systemPrompt, metadata, response }` read
\* as a Message: it has no id, no role, no content and no tool_calls
ContextAsMessage(response) == [id |-> 0, role |-> "none", content |-> << >>, tool_calls |-> 0]

\* an applyPlugin whose failure path hands back the response of the context
applyPluginKeepsResponse(kind, response) ==
    CASE kind = "same" -> response
      [] kind = "rewrite" -> [response EXCEPT !.content = ContentRead(response) \o <<"!">>]
      [] OTHER -> response

\* ConversationOrchestrator.applyPlugin on an afterReceive hook:
\* `return result || context`, and `return context` in the catch
applyPlugin(kind, response) ==
    CASE kind = "same" -> response
      [] kind = "rewrite" -> [response EXCEPT !.content = ContentRead(response) \o <<"!">>]
      [] OTHER -> ContextAsMessage(response)

\* the states of the browser's stores: localStorage.setItem works or throws
\* (quota, private mode), the IndexedDB put succeeds or fails
Storages == [local : {"ok", "throws"}, db : {"ok", "rejects"}]

\* PersistenceLayer.saveRecentSession: the snapshot is written, or setItem
\* throws and the catch leaves the old one
saveRecentSession(st, old, msgs) == IF st.local = "ok" THEN msgs ELSE old

\* a persistConversation without its try/catch: a rejected saveConversation
\* leaves it, and streamHandler.onComplete with it
persistConversationNoCatch(st) == st.db = "ok"

\* persistConversation: whether it returns normally; its try/catch takes
\* every failure of the two saves
persistConversation(st) == TRUE

\* the rest of streamHandler.onComplete once the afterReceive hooks are done:
\* addMessage(finalMessage), then persistConversation (which suspends) or the
\* caller's onComplete
FinishComplete(t, final, rest, entry) ==
    /\ addMessage(final)
    /\ foreign' = (foreign \/ t # turn)
    /\ IF orch.persistence
       THEN /\ recent' = saveRecentSession(storage, recent,
                                           Trim(Append(messages, final), config.maxMessages))
            /\ completions' = Append(rest, [turn |-> t, final |-> final, stage |-> "persist", at |-> 0])
            /\ calls' = [calls EXCEPT ![t].handlerComplete = @ + entry]
       ELSE /\ completions' = rest
            /\ calls' = [calls EXCEPT ![t].handlerComplete = @ + entry, ![t].complete = @ + 1]
            /\ UNCHANGED recent

\* `handler.onComplete(this.currentMessage)` up to its first await
StartComplete(t, msg) ==
    IF orch.afterHooks > 0
    THEN /\ completions' = Append(completions, [turn |-> t, final |-> msg, stage |-> "hook", at |-> 1])
         /\ Bump(t, "handlerComplete")
         /\ UNCHANGED <<messages, pinnedMessages, systemPrompt, config, recent, foreign>>
    ELSE FinishComplete(t, msg, completions, 1)

\* a stream() without the finally clause
FinallyKeepsController == UNCHANGED abortController

\* `finally { this.abortController = undefined; }`
Finally == abortController' = "none"

\* the end of StreamingEngine.stream after the loop: onComplete, return,
\* finally; sendMessage resolves with the returned message
LoopExit(reason, msg) ==
    /\ StartComplete(turn, msg)
    /\ Finally
    /\ pc' = "idle"
    /\ outcome' = [kind |-> "resolved", exit |-> reason, turn |-> turn, msg |-> msg, err |-> "none"]

\* the errors thrown during a turn: by ProviderHub.getProvider, by the
\* adapter's stream, by the engine's loop body (the chunk callback)
Errors == {"provider", "adapter", "accumulator"}

\* a catch clause that rethrows without telling the error callback
ErrorNotReported(t, err, n) == UNCHANGED calls

\* `onError(err)` in n catch clauses on the way up
ReportError(t, err, n) ==
    calls' = [calls EXCEPT ![t].error = @ + n, ![t].errors = @ \cup {err}]

\* a sendMessage whose catch returns the engine's message instead of rethrowing
SettleSwallowed(err, msg) ==
    outcome' = [kind |-> "resolved", exit |-> "error", turn |-> turn, msg |-> msg, err |-> "none"]

\* `throw err` out of sendMessage: the returned promise rejects with err
SettleRejected(err, msg) ==
    outcome' = [kind |-> "rejected", exit |-> IF err = "provider" THEN "provider" ELSE "error",
                turn |-> turn, msg |-> NoMessage, err |-> err]

\* an engine whose catch branch hands the partial message on before it rethrows
ThrowPathKeepsPartial(msg, err) ==
    /\ addMessage(msg)
    /\ ReportError(turn, err, 2)
    /\ abortController' = "none"
    /\ pc' = "idle"
    /\ SettleRejected(err, msg)
    /\ UNCHANGED <<completions, recent, foreign>>

\* catch / finally of StreamingEngine.stream, then the catch of sendMessage:
\* the error callback runs in both, and the call rejects
ThrowPath(msg, err) ==
    /\ ReportError(turn, err, 2)
    /\ Finally
    /\ pc' = "idle"
    /\ SettleRejected(err, msg)
    /\ UNCHANGED <<messages, pinnedMessages, systemPrompt, config, completions, recent, foreign>>

\* the signal of the controller that the stream call of turn t creates
EngineSignal(t) == [kind |-> "engine", of |-> t]

\* the signal the caller passed in the options
CallerSignal == [kind |-> "caller", of |-> 0]

\* StreamingEngine.getAbortSignal: `this.abortController?.signal`; t is the
\* stream call that created the controller the engine holds
getAbortSignal(ac, t) == IF ac = "none" THEN NoSignal ELSE EngineSignal(t)

\* `signal || this.streamingEngine.getAbortSignal()`, evaluated before
\* StreamingEngine.stream is called: a controller the engine holds at this
\* point is the one of an earlier stream call
AbortSignalFor(sig, ac, t) == IF sig # "none" THEN CallerSignal ELSE getAbortSignal(ac, t - 1)

\* a streamHandler.onChunk that leaves out the chunk that ends the stream
onChunkSkipsTerminal(d, c) ==
    IF c.content # << >> /\ ~IsTerminal(c) THEN Append(d, c.content) ELSE d

\* streamHandler.onChunk: `if (chunk.content && onChunk) onChunk(chunk.content)`
onChunk(d, c) == IF c.content # << >> THEN Append(d, c.content) ELSE d

\* `session-${Date.now()}`: the id made at time `now`
FreshSessionId(now) == <<"session", now>>

\* `this.config.sessionId || \`session-${Date.now()}\``
SessionIdAt(cfg, now) == IF cfg # NoSessionId THEN cfg ELSE FreshSessionId(now)

\* PersistenceLayer.saveConversation: the store puts the conversation under
\* its id, unless the put fails
saveConversation(st, old, id) == IF st.db = "ok" THEN old \cup {id} ELSE old

\* sendMessage(content), steps 1-4 up to `await PromptEngine.compose`
Send(content) ==
        LET userMessage == [id |-> UserId(turn + 1), role |-> "user",
                            content |-> content, tool_calls |-> 0]
        IN /\ pc = "idle"
           /\ turn < MaxTurns
           /\ addMessage(userMessage)
           /\ before' = messages
           /\ foreign' = FALSE
           /\ turn' = turn + 1
           /\ pc' = "composing"
           /\ stream' = << >>
           /\ cancelledAt' = -1
           /\ outcome' = NoOutcome
           /\ UNCHANGED <<xvars, gvars, thrown, whist, promptCalls, orch, evars, completions, recent, calls>>

\* a caller submits a text
TSend == \E content \in UserTexts : Send(content)

\* sendMessage, steps 5-6 when ProviderHub.getProvider throws: the catch of
\* sendMessage calls onError and rethrows
TNoProvider ==
    /\ pc = "composing"
    /\ ~orch.providerKnown
    /\ thrown' = [thrown EXCEPT ![turn] = "provider"]
    /\ ReportError(turn, "provider", 1)
    /\ pc' = "idle"
    /\ SettleRejected("provider", NoMessage)
    /\ UNCHANGED <<xvars, gvars, wvars, whist, promptCalls, orch, turn, evars, stream,
                   completions, recent, before, foreign, cancelledAt>>

\* sendMessage, steps 5-8: provider.stream(...) is created and
\* StreamingEngine.stream runs up to its first `for await` pull
TOpenStream ==
    /\ pc = "composing"
    /\ orch.providerKnown
    /\ abortController' = "live"
    /\ accumulatedContent' = << >>
    /\ currentMessage' = [id |-> AsstId(turn), role |-> "assistant",
                          content |-> << >>, tool_calls |-> 0]
    /\ pc' = "streaming"
    /\ adapterSignal' = AbortSignalFor(signal, abortController, turn)
    /\ delivered' = << >>
    /\ UNCHANGED <<xvars, signal, sessionId, saved, thrown, wvars, whist, promptCalls, orch, turn,
                   stream, completions, recent, before, foreign, cancelledAt, outcome, calls>>

\* one iteration of the `for await` loop: the stream yields a chunk
TChunk ==
  \E c \in Chunks :
    /\ pc = "streaming"
    /\ Len(stream) < MaxChunks
    /\ LET msg == ApplyToMessage(currentMessage, accumulatedContent, c)
       IN /\ stream' = Append(stream, c)
          /\ IF AbortObserved(abortController)
             THEN /\ LoopExit("abort", currentMessage)
                  /\ UNCHANGED <<accumulatedContent, currentMessage, delivered>>
             ELSE /\ accumulatedContent' = Accumulate(accumulatedContent, c)
                  /\ currentMessage' = msg
                  /\ delivered' = onChunk(delivered, c)
                  /\ IF IsTerminal(c)
                     THEN LoopExit("terminal", msg)
                     ELSE UNCHANGED <<wvars, abortController, pc, outcome,
                                      completions, recent, foreign, calls>>
    /\ UNCHANGED <<xvars, signal, adapterSignal, sessionId, saved, thrown, whist, promptCalls,
                   orch, turn, before, cancelledAt>>

\* one iteration in which the caller's onChunk callback throws: the chunk is
\* already accumulated, the loop is left through catch
TChunkCallbackThrows ==
  \E c \in Chunks :
    /\ pc = "streaming"
    /\ Len(stream) < MaxChunks
    /\ c.content # << >>
    /\ ~AbortObserved(abortController)
    /\ stream' = Append(stream, c)
    /\ accumulatedContent' = Accumulate(accumulatedContent, c)
    /\ currentMessage' = ApplyToMessage(currentMessage, accumulatedContent, c)
    /\ thrown' = [thrown EXCEPT ![turn] = "accumulator"]
    /\ delivered' = onChunk(delivered, c)
    /\ ThrowPath(currentMessage', "accumulator")
    /\ UNCHANGED <<xvars, signal, adapterSignal, sessionId, saved, whist, promptCalls, orch, turn,
                   before, cancelledAt>>

\* the pull rejects: the adapter's stream throws
TStreamError ==
    /\ pc = "streaming"
    /\ Len(stream) < MaxChunks
    /\ stream' = Append(stream, ErrorEvent)
    /\ thrown' = [thrown EXCEPT ![turn] = "adapter"]
    /\ ThrowPath(currentMessage, "adapter")
    /\ UNCHANGED <<xvars, gvars, whist, promptCalls, orch, turn, accumulatedContent, currentMessage,
                   before, cancelledAt>>

\* the stream completes without a terminal chunk: the loop ends normally
TStreamEnd ==
    /\ pc = "streaming"
    /\ LoopExit("end", currentMessage)
    /\ UNCHANGED <<xvars, gvars, thrown, whist, promptCalls, orch, turn, accumulatedContent, currentMessage,
                   stream, before, cancelledAt>>

\* a cancel() that leaves an aborted controller behind when there is none
CancelWithoutGuard(ac) == "aborted"

\* StreamingEngine.cancel: `if (this.abortController) this.abortController.abort()`
Cancelled(ac) == IF ac # "none" THEN "aborted" ELSE ac

\* ConversationOrchestrator.cancel -> StreamingEngine.cancel
TCancel ==
    /\ abortController' = Cancelled(abortController)
    /\ cancelledAt' = IF abortController = "live" THEN Len(stream) ELSE cancelledAt
    /\ UNCHANGED <<xvars, gvars, thrown, wvars, whist, promptCalls, orch, pc, turn, accumulatedContent,
                   currentMessage, stream, completions, recent, before, foreign, outcome, calls>>

\* a suspended streamHandler.onComplete resumes: the awaited applyPlugin of
\* one afterReceive hook has settled; the loop goes on to the next plugin, or
\* the rest of onComplete runs
TAfterHooks ==
    \E i \in DOMAIN completions :
        LET task == completions[i]
            rest == SubSeq(completions, 1, i - 1) \o SubSeq(completions, i + 1, Len(completions))
            final == applyPlugin(hooks[task.at], task.final)
        IN /\ task.stage = "hook"
           /\ IF task.at < Len(hooks)
              THEN /\ completions' = [completions EXCEPT ![i] = [task EXCEPT !.final = final, !.at = @ + 1]]
                   /\ UNCHANGED <<wvars, recent, foreign, calls>>
              ELSE FinishComplete(task.turn, final, rest, 0)
           /\ UNCHANGED <<xvars, gvars, thrown, whist, promptCalls, orch, pc, turn, evars, stream,
                          before, cancelledAt, outcome>>

\* a suspended streamHandler.onComplete resumes when saveConversation has
\* settled: persistConversation returns and the caller's onComplete runs
TPersisted ==
    \E i \in DOMAIN completions :
        LET task == completions[i]
            rest == SubSeq(completions, 1, i - 1) \o SubSeq(completions, i + 1, Len(completions))
        IN /\ task.stage = "persist"
           /\ completions' = rest
           /\ saved' = saveConversation(storage, saved, SessionIdAt(sessionId, task.turn))
           /\ IF persistConversation(storage)
              THEN Bump(task.turn, "complete")
              ELSE UNCHANGED calls
           /\ UNCHANGED <<xvars, signal, adapterSignal, delivered, sessionId, thrown, wvars, whist,
                          promptCalls, orch, pc, turn, evars, stream, recent, before, foreign,
                          cancelledAt, outcome>>

OrchConfigs == [providerKnown : BOOLEAN, afterHooks : {0, 1}, persistence : BOOLEAN]

\* new ConversationOrchestrator(config): the window gets maxMessages from
\* config.memory, the other fields of the window keep one value
TurnInit ==
    /\ WindowInit
    /\ config.maxMessages = MaxCap
    /\ config.maxTokens = MaxTokens
    /\ config.systemPromptLocked
    /\ \E o \in OrchConfigs : OrchInit(o) /\ hooks = SameHooks(o.afterHooks)
    /\ NoCompose
    /\ NoSSE /\ NoSession
    /\ storage = StorageWorks
    /\ NoFormat

TurnNext ==
    \/ TSend
    \/ TNoProvider
    \/ TOpenStream
    \/ TChunk
    \/ TChunkCallbackThrows
    \/ TStreamError
    \/ TStreamEnd
    \/ TCancel
    \/ TAfterHooks
    \/ TPersisted

SpecTurn == TurnInit /\ [][TurnNext]_vars

\* a step of the turn that waits for nothing but the adapter's stream, which
\* is finite: the next chunk, its end, or its failure
StreamStep == TChunk \/ TChunkCallbackThrows \/ TStreamError \/ TStreamEnd

\* the first turns of SpecTurn under a scheduler that resumes every awaiting call:
\* compose returns, the stream delivers or ends, hooks and saves settle
LSend == turn < MaxLiveTurns /\ TSend

LiveNext ==
    \/ LSend
    \/ TNoProvider
    \/ TOpenStream
    \/ TChunk
    \/ TChunkCallbackThrows
    \/ TStreamError
    \/ TStreamEnd
    \/ TCancel
    \/ TAfterHooks
    \/ TPersisted

SpecTurnLive ==
    /\ TurnInit
    /\ [][LiveNext]_vars
    /\ WF_vars(TNoProvider \/ TOpenStream)
    /\ WF_vars(StreamStep)
    /\ WF_vars(TAfterHooks)
    /\ WF_vars(TPersisted)

----------------------------------------------------------------------------
(* Turns with every cancel() call counted *)

\* ConversationOrchestrator.cancel -> StreamingEngine.cancel
CCancel ==
    /\ cancels < MaxCancels
    /\ cancels' = cancels + 1
    /\ abortController' = Cancelled(abortController)
    /\ cancelledAt' = IF abortController = "live" THEN Len(stream) ELSE cancelledAt
    /\ UNCHANGED <<wvars, whist, promptCalls, orch, pc, turn, accumulatedContent,
                   currentMessage, stream, completions, recent, before, foreign, outcome,
                   calls, thrown, hooks, inflight, cvars, svars, fvars, gvars>>

\* a known provider, no plugins, no persistence
CancelInit ==
    /\ WindowInit
    /\ config.maxMessages = MaxCap
    /\ config.maxTokens = MaxTokens
    /\ config.systemPromptLocked
    /\ NoOrch
    /\ NoCompose
    /\ NoSSE /\ NoSession
    /\ storage = StorageWorks
    /\ NoFormat

CancelNext ==
    \/ TSend
    \/ TOpenStream
    \/ TChunk
    \/ TStreamEnd
    \/ CCancel

SpecCancel == CancelInit /\ [][CancelNext]_vars

----------------------------------------------------------------------------
(* Turns of an orchestrator whose plugins have afterReceive hooks of every kind *)

\* new ConversationOrchestrator({plugins, ...}): a known provider, no
\* persistence, one to MaxHooks plugins with an afterReceive hook each
HooksInit ==
    /\ WindowInit
    /\ config.maxMessages = MaxCap
    /\ config.maxTokens = MaxTokens
    /\ config.systemPromptLocked
    /\ \E n \in 1..MaxHooks :
          /\ OrchInit([providerKnown |-> TRUE, afterHooks |-> n, persistence |-> FALSE])
          /\ hooks \in [1..n -> HookKinds]
    /\ NoCompose
    /\ NoSSE /\ NoSession
    /\ storage = StorageWorks
    /\ NoFormat

HooksNext ==
    \/ TSend
    \/ TOpenStream
    \/ TChunk
    \/ TStreamEnd
    \/ TAfterHooks

SpecHooks == HooksInit /\ [][HooksNext]_vars

----------------------------------------------------------------------------
(* sendMessage calls that overlap on one orchestrator *)

\* what the steps of overlapping calls leave alone
ounch == <<whist, promptCalls, orch, pc, completions, recent, before, foreign,
           cancelledAt, outcome, calls, thrown, hooks, cancels, cvars, svars, fvars, gvars>>

\* sendMessage, steps 1-4, for the next call; the code has no condition on
\* the calls already running
OSend ==
    \E content \in UserTexts :
        /\ turn < MaxTurns
        /\ addMessage([id |-> UserId(turn + 1), role |-> "user",
                       content |-> content, tool_calls |-> 0])
        /\ turn' = turn + 1
        /\ inflight' = [inflight EXCEPT ![turn + 1] = "composing"]
        /\ UNCHANGED <<ounch, evars, stream>>

\* sendMessage, steps 5-8, of call c: StreamingEngine.stream replaces the
\* engine's controller, accumulated text and current message
OOpenStream(c) ==
    /\ inflight[c] = "composing"
    /\ abortController' = "live"
    /\ accumulatedContent' = << >>
    /\ currentMessage' = [id |-> AsstId(c), role |-> "assistant",
                          content |-> << >>, tool_calls |-> 0]
    /\ inflight' = [inflight EXCEPT ![c] = "streaming"]
    /\ UNCHANGED <<ounch, wvars, turn, stream>>

\* the end of StreamingEngine.stream in call c: onComplete (no afterReceive
\* hooks, no persistence: the engine's current message is appended at once),
\* return, finally
OExit(c, msg) ==
    /\ addMessage(msg)
    /\ abortController' = "none"
    /\ inflight' = [inflight EXCEPT ![c] = "idle"]

\* MemoryWindow.addMessage pushes the object it is given: a transcript entry
\* that is the engine's current message (the ids are unique per stream call)
\* shows every later write to this object
Shared(list, msg) == [i \in DOMAIN list |-> IF list[i].id = msg.id THEN msg ELSE list[i]]

\* one iteration of the `for await` loop of call c; the loop writes to
\* this.currentMessage, which is the object of the latest stream call
OChunk(c) ==
  \E ch \in Chunks :
    /\ inflight[c] = "streaming"
    /\ Len(stream) < MaxChunks
    /\ stream' = Append(stream, ch)
    /\ IF AbortObserved(abortController)
       THEN /\ OExit(c, currentMessage)
            /\ UNCHANGED <<accumulatedContent, currentMessage>>
       ELSE /\ accumulatedContent' = Accumulate(accumulatedContent, ch)
            /\ currentMessage' = ApplyToMessage(currentMessage, accumulatedContent, ch)
            /\ IF IsTerminal(ch)
               THEN /\ messages' = Trim(Append(Shared(messages, currentMessage'), currentMessage'),
                                        config.maxMessages)
                    /\ abortController' = "none"
                    /\ inflight' = [inflight EXCEPT ![c] = "idle"]
                    /\ UNCHANGED <<pinnedMessages, systemPrompt, config>>
               ELSE /\ messages' = Shared(messages, currentMessage')
                    /\ UNCHANGED <<pinnedMessages, systemPrompt, config, abortController, inflight>>
    /\ UNCHANGED <<ounch, turn>>

\* the stream of call c completes without a terminal chunk
OStreamEnd(c) ==
    /\ inflight[c] = "streaming"
    /\ OExit(c, currentMessage)
    /\ UNCHANGED <<ounch, turn, accumulatedContent, currentMessage, stream>>

\* ConversationOrchestrator.cancel -> StreamingEngine.cancel
OCancel ==
    /\ abortController = "live"
    /\ abortController' = "aborted"
    /\ UNCHANGED <<ounch, wvars, turn, accumulatedContent, currentMessage, stream, inflight>>

OverlapInit ==
    /\ WindowInit
    /\ config.maxTokens = MaxTokens
    /\ config.systemPromptLocked
    /\ NoOrch
    /\ NoCompose
    /\ NoSSE /\ NoSession
    /\ storage = StorageWorks
    /\ NoFormat

OverlapNext ==
    \/ OSend
    \/ \E c \in 1..MaxTurns : OOpenStream(c)
    \/ \E c \in 1..MaxTurns : OChunk(c)
    \/ \E c \in 1..MaxTurns : OStreamEnd(c)
    \/ OCancel

SpecOverlap == OverlapInit /\ [][OverlapNext]_vars

----------------------------------------------------------------------------
(* PromptEngine.compose and PluginManager.executeBeforeSend *)

\* what a beforeSend hook does with the context: return a copy with one more
\* message, throw, or return nothing
BeforeKinds == {"append", "throws", "nothing"}

\* the message the beforeSend hook of plugin i adds
Note(i) == [id |-> 100 + i, role |-> "system", content |-> <<"n">>]

\* PluginContext
Context(msgs, prompt) == [defined |-> TRUE, messages |-> msgs, systemPrompt |-> prompt]

\* the call `transform(context)` of plugin i: the value it returns, or that it
\* threw; a hook that reads `ctx.messages` of undefined throws a TypeError
CallBeforeSend(kind, i, ctx) ==
    CASE kind = "throws" -> [threw |-> TRUE, value |-> NoContext]
      [] kind = "nothing" -> [threw |-> FALSE, value |-> NoContext]
      [] OTHER -> IF ctx.defined
                  THEN [threw |-> FALSE,
                        value |-> [ctx EXCEPT !.messages = Append(@, Note(i))]]
                  ELSE [threw |-> TRUE, value |-> NoContext]

\* an applyPlugin without the try/catch: the hook's exception leaves it
applyBeforeSendNoCatch(kind, i, ctx) ==
    LET r == CallBeforeSend(kind, i, ctx)
    IN IF r.threw THEN [threw |-> TRUE, value |-> NoContext]
       ELSE [threw |-> FALSE, value |-> IF r.value.defined THEN r.value ELSE ctx]

\* PromptEngine.applyPlugin: `return result || context`, `return context` in the catch
applyBeforeSend(kind, i, ctx) ==
    LET r == CallBeforeSend(kind, i, ctx)
    IN IF r.threw THEN [threw |-> FALSE, value |-> ctx]
       ELSE [threw |-> FALSE, value |-> IF r.value.defined THEN r.value ELSE ctx]

\* a compose that puts the synthesized system message behind the messages
ComposedMessagesPromptLast(prompt, msgs) ==
    msgs \o (IF Truthy(prompt)
             THEN <<[id |-> 100, role |-> "system", content |-> prompt.text]>>
             ELSE << >>)

\* PromptEngine.compose up to the plugin loop: the system message, if the
\* prompt is truthy, then the messages
ComposedMessages(prompt, msgs) ==
    (IF Truthy(prompt)
     THEN <<[id |-> 100, role |-> "system", content |-> prompt.text]>>
     ELSE << >>) \o msgs

\* PromptEngine.compose(config) and PluginManager.executeBeforeSend(ctx) are
\* called, each on the context of the same configuration
CCompose ==
    \E prompt \in {NoPrompt} \cup {SomePrompt(t) : t \in PromptTexts},
       msgs \in SeqsUpTo(WinMsgs, 1) :
        /\ composeAt \in {0, Len(plugins) + 1}
        /\ pmAt \in {0, Len(plugins) + 1}
        /\ composed' = Context(ComposedMessages(prompt, msgs), prompt)
        /\ processedContext' = composed'
        /\ composeAt' = 1
        /\ pmResult' = composed'
        /\ pmAt' = 1
        /\ UNCHANGED <<wvars, whist, promptCalls, tvars, hvars, svars, fvars, gvars, plugins>>

\* one iteration of the plugin loop of compose: `await this.applyPlugin(...)`;
\* a rejection of applyPlugin would leave compose (composeAt = -1)
CBeforeSend ==
    /\ composeAt \in DOMAIN plugins
    /\ LET r == applyBeforeSend(plugins[composeAt], composeAt, processedContext)
       IN IF r.threw
          THEN /\ composeAt' = -1
               /\ UNCHANGED processedContext
          ELSE /\ composeAt' = composeAt + 1
               /\ processedContext' = r.value
    /\ UNCHANGED <<wvars, whist, promptCalls, tvars, hvars, svars, fvars, gvars, plugins, composed, pmAt, pmResult>>

\* one iteration of the loop of executeBeforeSend:
\* `result = await plugin.beforeSend(result)` inside try/catch
MBeforeSend ==
    /\ pmAt \in DOMAIN plugins
    /\ LET r == CallBeforeSend(plugins[pmAt], pmAt, pmResult)
       IN pmResult' = IF r.threw THEN pmResult ELSE r.value
    /\ pmAt' = pmAt + 1
    /\ UNCHANGED <<wvars, whist, promptCalls, tvars, hvars, svars, fvars, gvars, plugins, composed,
                   composeAt, processedContext>>

\* the plugin list of the configuration: up to MaxHooks plugins with a beforeSend hook
ComposeInit ==
    /\ WindowInit
    /\ config.maxMessages = MaxCap
    /\ config.maxTokens = MaxTokens
    /\ config.systemPromptLocked
    /\ NoOrch
    /\ NoSSE /\ NoSession
    /\ storage = StorageWorks
    /\ NoFormat
    /\ plugins \in SeqsUpTo(BeforeKinds, MaxHooks)
    /\ composeAt = 0
    /\ processedContext = NoContext
    /\ composed = NoContext
    /\ pmAt = 0
    /\ pmResult = NoContext

ComposeNext == CCompose \/ CBeforeSend \/ MBeforeSend

SpecCompose == ComposeInit /\ [][ComposeNext]_vars

----------------------------------------------------------------------------
(* The adapters' stream(): server-sent events read from the response body *)

\* the adapters; their stream() loops differ only in the fields they read
\* from a parsed event
Adapters == {"openai", "claude", "moonshot", "local"}

\* `'data: '`
Marker == <<"d", "a", "t", "a", ":", " ">>

\* `'[DONE]'`
DoneText == <<"[", "D", "O", "N", "E", "]">>

\* the lines a response body is made of, as bytes. A JSON object is written
\* "{", one element naming what it holds, "}": "C3" "A9" (the two UTF-8 bytes
\* of the one-character text of a content delta), "t" (a tool_calls delta),
\* "f" (a finish reason / message_stop). The malformed line is an object cut
\* short. Every line is followed by the empty line that ends an event.
LineKinds == {"content", "tool", "finish", "malformed", "done"}

LineBytes(kind) ==
    CASE kind = "content" -> Marker \o <<"{", "C3", "A9", "}">>
      [] kind = "tool" -> Marker \o <<"{", "t", "}">>
      [] kind = "finish" -> Marker \o <<"{", "f", "}">>
      [] kind = "malformed" -> Marker \o <<"{", "C3", "A9">>
      [] OTHER -> Marker \o DoneText

RECURSIVE Encode(_, _)
\* the bytes of a body: each line with its two newlines, the last line
\* without them when the body is cut off
Encode(ls, term) ==
    IF ls = << >> THEN << >>
    ELSE LineBytes(Head(ls))
             \o (IF Len(ls) = 1 /\ ~term THEN << >> ELSE <<"\n", "\n">>)
             \o Encode(Tail(ls), term)

\* r with text t put in front of its text
Prepend(t, r) == [r EXCEPT !.text = t \o @]

RECURSIVE DecodeFrom(_, _, _)
\* UTF-8 decoding of bytes i.. after the held bytes pend: "C3" "A9" is one
\* character, a byte that cannot go on or begin a character is replaced
DecodeFrom(bytes, i, pend) ==
    IF i > Len(bytes) THEN [text |-> << >>, pending |-> pend]
    ELSE IF pend # << >>
         THEN IF bytes[i] = "A9"
              THEN Prepend(<<"U+00E9">>, DecodeFrom(bytes, i + 1, << >>))
              ELSE Prepend(<<"U+FFFD">>, DecodeFrom(bytes, i, << >>))
         ELSE IF bytes[i] = "C3" THEN DecodeFrom(bytes, i + 1, <<"C3">>)
              ELSE Prepend(<<IF bytes[i] = "A9" THEN "U+FFFD" ELSE bytes[i]>>,
                           DecodeFrom(bytes, i + 1, << >>))

\* `decoder.decode(value, { stream: true })`
Decode(pend, bytes) == DecodeFrom(bytes, 1, pend)

RECURSIVE SplitFrom(_, _, _)
SplitFrom(buf, i, cur) ==
    IF i > Len(buf) THEN [lines |-> << >>, rest |-> cur]
    ELSE IF buf[i] = "\n"
         THEN LET r == SplitFrom(buf, i + 1, << >>)
              IN [r EXCEPT !.lines = <<cur>> \o @]
         ELSE SplitFrom(buf, i + 1, Append(cur, buf[i]))

\* a split that hands the trailing fragment on as a line instead of holding it
SplitLinesNoHold(buf) ==
    LET r == SplitFrom(buf, 1, << >>)
    IN [lines |-> IF r.rest = << >> THEN r.lines ELSE Append(r.lines, r.rest), rest |-> << >>]

\* `lines = buffer.split('\n'); buffer = lines.pop() || ''`
SplitLines(buf) == SplitFrom(buf, 1, << >>)

\* `line.startsWith('data: ')`
StartsWith(line, prefix) ==
    Len(line) >= Len(prefix) /\ SubSeq(line, 1, Len(prefix)) = prefix

\* JSON.parse(data): the object, or that it threw
ParseJSON(data) ==
    IF data = <<"{", "U+00E9", "}">> THEN [ok |-> TRUE, holds |-> "content"]
    ELSE IF data = <<"{", "t", "}">> THEN [ok |-> TRUE, holds |-> "tool"]
    ELSE IF data = <<"{", "f", "}">> THEN [ok |-> TRUE, holds |-> "finish"]
    ELSE [ok |-> FALSE, holds |-> "none"]

\* the chunks yielded for one parsed event
EventChunks(prov, holds) ==
    CASE holds = "content" -> <<Chunk(<<"U+00E9">>, 0, "none", FALSE)>>
      [] holds = "tool" -> IF prov = "openai" THEN <<Chunk(<< >>, 1, "none", FALSE)>> ELSE << >>
      [] holds = "finish" -> <<Chunk(<< >>, 0, "stop", TRUE)>>
      [] OTHER -> << >>

\* a loop body without the try/catch around JSON.parse
ParseErrorThrown == FALSE

\* `try { ... JSON.parse(data) ... } catch (e) { // Skip invalid JSON }`
ParseErrorCaught == TRUE

RECURSIVE ProcessLines(_, _, _)
\* `for (const line of lines)`: the chunks yielded, and where stream() is
\* afterwards: still reading, returned after [DONE], or left by an exception
ProcessLines(prov, ls, i) ==
    IF i > Len(ls) THEN [out |-> << >>, sse |-> "reading"]
    ELSE IF ~StartsWith(ls[i], Marker) THEN ProcessLines(prov, ls, i + 1)
    ELSE LET data == SubSeq(ls[i], Len(Marker) + 1, Len(ls[i]))
             parsed == ParseJSON(data)
         IN IF data = DoneText
            THEN [out |-> <<Chunk(<< >>, 0, "none", TRUE)>>, sse |-> "returned"]
            ELSE IF parsed.ok
            THEN LET r == ProcessLines(prov, ls, i + 1)
                 IN [r EXCEPT !.out = EventChunks(prov, parsed.holds) \o @]
            ELSE IF ParseErrorCaught THEN ProcessLines(prov, ls, i + 1)
            ELSE [out |-> << >>, sse |-> "failed"]

\* one `await reader.read()` that returns k bytes, and the loop body for them
SRead ==
    \E k \in 1..Len(wire) :
        LET d == Decode(pending, SubSeq(wire, 1, k))
            sp == SplitLines(buffer \o d.text)
            r == ProcessLines(provider, sp.lines, 1)
        IN /\ sse = "reading"
           /\ wire' = SubSeq(wire, k + 1, Len(wire))
           /\ pending' = d.pending
           /\ buffer' = sp.rest
           /\ yielded' = yielded \o r.out
           /\ sse' = r.sse
           /\ UNCHANGED <<wvars, whist, promptCalls, tvars, hvars, cvars, fvars, gvars,
                          provider, lines, terminated>>

\* `await reader.read()` returns done: the loop is left, nothing is flushed
SEnd ==
    /\ sse = "reading"
    /\ wire = << >>
    /\ sse' = "ended"
    /\ UNCHANGED <<wvars, whist, promptCalls, tvars, hvars, cvars, fvars, gvars,
                   provider, wire, buffer, yielded, lines, terminated, pending>>

\* stream() of one adapter has sent its request and holds the reader of a body
SSEInit ==
    /\ WindowInit
    /\ config.maxMessages = MaxCap
    /\ config.maxTokens = MaxTokens
    /\ config.systemPromptLocked
    /\ NoOrch
    /\ NoCompose
    /\ provider \in Adapters
    /\ lines \in SeqsUpTo(LineKinds, MaxLines)
    /\ terminated \in BOOLEAN
    /\ wire = Encode(lines, terminated)
    /\ buffer = << >>
    /\ pending = << >>
    /\ yielded = << >>
    /\ sse = "reading"
    /\ storage = StorageWorks
    /\ NoFormat
    /\ NoSession

SSENext == SRead \/ SEnd

SpecSSE == SSEInit /\ [][SSENext]_vars

----------------------------------------------------------------------------
(* Properties of the window *)

InList(m, s) == \E i \in DOMAIN s : s[i] = m

IdInList(id, s) == \E i \in DOMAIN s : s[i].id = id

IsSuffix(s, t) == Len(s) <= Len(t) /\ s = SubSeq(t, Len(t) - Len(s) + 1, Len(t))

\* C1: whenever the transcript is non-empty, getContext returns a non-empty
\* message list, whatever the token budget.
C1_SendableNonEmpty == Len(messages) > 0 => Len(Sendable) > 0

\* the newest message alone exceeds a positive budget and is returned by the fallback
C1_Witness ==
    /\ Len(messages) > 0
    /\ config.maxTokens > 0
    /\ estimateTokens(messages[Len(messages)].content) > config.maxTokens
    /\ Sendable = <<messages[Len(messages)]>>

\* C2: whenever the transcript is non-empty, the returned list holds a message
\* with the id of the most recently appended transcript entry.
C2_MostRecentSent ==
    Len(messages) > 0 => IdInList(messages[Len(messages)].id, Sendable)

\* C3: every pinned message is in the list returned by getContext.
C3_PinnedSent ==
    \A i \in DOMAIN pinnedMessages : InList(pinnedMessages[i], Sendable)

\* C4: the list returned by getContext holds at most maxMessages entries
\* that are not pinned.
C4_RecentBounded ==
    Cardinality({j \in DOMAIN Sendable : ~IdInList(Sendable[j].id, pinnedMessages)})
        <= config.maxMessages

\* C5 as stated: getAllMessages returns every appended message, in order, so
\* its length is the number of appends.
C5_AllIsEveryAppend == getAllMessages = appended

\* C5 amended: getAllMessages is the tail of the appended messages, in
\* insertion order and with repeated ids kept; while maxMessages is M >= 1 it
\* has at most M entries, and if maxMessages was never changed it has
\* min(appends, M) entries (every append when M = 0).
C5_AllIsRecentAppends ==
    /\ IsSuffix(getAllMessages, appended)
    /\ config.maxMessages >= 1 => Len(getAllMessages) <= config.maxMessages
    /\ ~capChanged =>
          Len(getAllMessages) = IF config.maxMessages = 0 THEN Len(appended)
                                ELSE Min(Len(appended), config.maxMessages)

\* more appends than maxMessages, two of them with the same id, ceiling never changed
C5_Witness ==
    /\ ~capChanged
    /\ config.maxMessages >= 1
    /\ Len(appended) > config.maxMessages
    /\ Len(getAllMessages) = config.maxMessages
    /\ \E i, j \in DOMAIN appended : i < j /\ appended[i].id = appended[j].id

\* C6: after setSystemPrompt(p1); setSystemPrompt(p2) on a new window the
\* prompt is p1 if the lock flag was enabled at both calls and p2 if it was
\* disabled at both.
C6_FirstWinsWhenLocked ==
    Len(promptCalls) = 2 =>
        /\ (promptCalls[1].locked /\ promptCalls[2].locked)
              => systemPrompt = SomePrompt(promptCalls[1].p)
        /\ (~promptCalls[1].locked /\ ~promptCalls[2].locked)
              => systemPrompt = SomePrompt(promptCalls[2].p)

----------------------------------------------------------------------------
(* Properties of a turn *)

\* the texts of a sequence of chunks, concatenated in order
RECURSIVE ConcatText(_)
ConcatText(cs) == IF cs = << >> THEN << >> ELSE Head(cs).content \o ConcatText(Tail(cs))

HasTerminal(cs) == \E i \in DOMAIN cs : cs[i].kind = "chunk" /\ IsTerminal(cs[i])

\* index of the first terminal chunk of a sequence that has one
FirstTerminal(cs) ==
    CHOOSE i \in DOMAIN cs :
        /\ cs[i].kind = "chunk" /\ IsTerminal(cs[i])
        /\ \A j \in 1..(i - 1) : ~(cs[j].kind = "chunk" /\ IsTerminal(cs[j]))

\* C7: when a stream that has a terminal chunk is consumed without
\* cancellation, the returned message's content is the concatenation, in
\* order, of the texts of the chunks up to and including the first terminal
\* chunk, and of no chunk after it.
C7_ContentIsConcatenation ==
    (outcome.kind = "resolved" /\ cancelledAt = -1 /\ HasTerminal(stream)) =>
        outcome.msg.content = ConcatText(SubSeq(stream, 1, FirstTerminal(stream)))

\* "a" then a terminal chunk carrying "b": the message reads "ab"
C7_Witness ==
    /\ outcome.kind = "resolved"
    /\ outcome.exit = "terminal"
    /\ cancelledAt = -1
    /\ Len(stream) = 2
    /\ outcome.msg.content = <<"a", "b">>

\* C8: when cancel() aborts the stream after k chunks were applied, the
\* resulting message's content is the concatenation of exactly those k chunks:
\* a chunk yielded after the signal is not applied, an applied one is kept.
C8_CancelKeepsAppliedChunks ==
    (outcome.kind = "resolved" /\ cancelledAt >= 0) =>
        outcome.msg.content = ConcatText(SubSeq(stream, 1, cancelledAt))

\* cancelled after one text chunk; the stream then yielded a second text chunk
C8_Witness ==
    /\ outcome.kind = "resolved"
    /\ outcome.exit = "abort"
    /\ cancelledAt = 1
    /\ Len(stream) = 2
    /\ stream[1].content # << >>
    /\ stream[2].content # << >>
    /\ outcome.msg.content = stream[1].content

\* C9: a turn whose stream was left because of cancel() does not take the
\* completion path: the completion callbacks are not invoked for it and its
\* partial assistant message is not appended to the transcript.
C9_CancelledNotCompleted ==
    (outcome.kind = "resolved" /\ outcome.exit = "abort") =>
        /\ calls[outcome.turn].handlerComplete = 0
        /\ calls[outcome.turn].complete = 0
        /\ ~IdInList(AsstId(outcome.turn), messages)

\* C10: after a failed turn no assistant message of that turn is in the
\* transcript or in the persisted snapshot, no completion of it was started,
\* and (unless a completion of another turn appended meanwhile) the transcript
\* is the transcript before the turn with the user message appended.
C10_FailedTurnKeepsUserOnly ==
    outcome.kind = "rejected" =>
        /\ ~IdInList(AsstId(outcome.turn), messages)
        /\ ~IdInList(AsstId(outcome.turn), recent)
        /\ calls[outcome.turn].handlerComplete = 0
        /\ \A i \in DOMAIN completions : completions[i].turn # outcome.turn
        /\ ~foreign =>
             \E content \in UserTexts :
                 messages = Trim(Append(before, [id |-> UserId(outcome.turn), role |-> "user",
                                                 content |-> content, tool_calls |-> 0]),
                                 config.maxMessages)

\* the stream threw after text had been accumulated, in a turn that began
\* with a non-empty transcript
C10_Witness ==
    /\ outcome.kind = "rejected"
    /\ outcome.exit = "error"
    /\ currentMessage.id = AsstId(outcome.turn)
    /\ currentMessage.content # << >>
    /\ before # << >>
    /\ ~foreign

\* C11: when the adapter's stream or the engine's loop body throws during a
\* turn, the error callback of that turn is invoked with the thrown error, no
\* completion of the turn is started, and sendMessage rejects with the error.
C11_ErrorsPropagate ==
    \A t \in 1..turn :
        thrown[t] \in {"adapter", "accumulator"} =>
            /\ thrown[t] \in calls[t].errors
            /\ calls[t].handlerComplete = 0
            /\ (t = turn /\ pc = "idle") =>
                   (outcome.kind = "rejected" /\ outcome.err = thrown[t] /\ outcome.turn = t)

\* the chunk callback threw on the second chunk, after text was accumulated
C11_Witness ==
    /\ turn >= 1
    /\ thrown[turn] = "accumulator"
    /\ Len(stream) = 2
    /\ outcome.kind = "rejected"
    /\ calls[turn].errors = {"accumulator"}

\* C17: every started turn reaches one outcome (completed or cancelled, which
\* resolve, or failed, which rejects), and whenever no turn is running the
\* engine has no controller, so that isStreaming() is false.
C17_TurnSettles ==
    /\ [](pc = "idle" => abortController = "none")
    /\ \A t \in 1..MaxLiveTurns :
          (turn = t /\ pc # "idle") ~>
              (/\ turn = t
               /\ pc = "idle"
               /\ outcome.turn = t
               /\ outcome.kind \in {"resolved", "rejected"}
               /\ abortController = "none")

\* a cancelled turn has settled and the engine is idle again
C17_Witness ==
    /\ pc = "idle"
    /\ outcome.kind = "resolved"
    /\ outcome.exit = "abort"
    /\ cancelledAt >= 0
    /\ abortController = "none"
    /\ outcome.turn = MaxLiveTurns

\* C18: a cancel() call made while no stream loop is running (idle, or
\* composing) changes nothing of the window, the engine or the turn, and a
\* turn leaves its stream loop by abort only if cancel() was called while that
\* turn was streaming.
C18_IdleCancelIsNoOp ==
    /\ [][(cancels' # cancels /\ pc # "streaming") =>
            UNCHANGED <<wvars, evars, pc, turn, stream, completions, recent,
                        cancelledAt, outcome, calls>>]_vars
    /\ [](outcome.exit = "abort" => cancelledAt >= 0)

\* cancel() was called before the stream of the first turn was opened, and
\* that stream is delivering text with a live controller
C18_Witness ==
    /\ turn = 1
    /\ cancels >= 1
    /\ cancelledAt = -1
    /\ pc = "streaming"
    /\ abortController = "live"
    /\ accumulatedContent # << >>

\* a Message as the window and the callbacks expect it: id, role and content
WellFormed(m) == m.id # 0 /\ m.role \in {"user", "assistant", "system"}

\* the response threaded through a hook chain in which a hook that throws is skipped
RECURSIVE ThreadSkipping(_, _)
ThreadSkipping(chain, m) ==
    IF chain = << >> THEN m
    ELSE ThreadSkipping(Tail(chain),
                        IF Head(chain) = "throws" THEN m
                        ELSE applyPluginKeepsResponse(Head(chain), m))

\* C12: when an afterReceive hook throws, the hook is skipped: the message
\* appended to the transcript when the turn's completion has run is a
\* well-formed Message, the response threaded through the hooks that did not throw.
C12_ThrowingHookSkipped ==
    (/\ outcome.kind = "resolved"
     /\ calls[outcome.turn].complete > 0
     /\ \E i \in DOMAIN hooks : hooks[i] = "throws"
     /\ \A i \in DOMAIN hooks : hooks[i] # "nothing") =>
        /\ \A i \in DOMAIN messages : WellFormed(messages[i])
        /\ InList(ThreadSkipping(hooks, outcome.msg), messages)

\* C15: when sendMessage has resolved for a turn whose stream loop ended
\* normally, the turn's assistant message is in the transcript.
C15_AppendedWhenResolved ==
    (outcome.kind = "resolved" /\ outcome.exit \in {"terminal", "end"}) =>
        IdInList(AsstId(outcome.turn), messages)

\* C16: for a completed turn the message sendMessage returned is the message
\* that was appended to the transcript after the afterReceive hooks.
C16_ReturnedIsAppended ==
    (outcome.kind = "resolved" /\ calls[outcome.turn].complete > 0) =>
        InList(outcome.msg, messages)

----------------------------------------------------------------------------
(* Properties of compose *)

\* the context threaded through hooks i.. of a chain, the hooks that throw
\* or return nothing left out
RECURSIVE SkipThrowing(_, _, _)
SkipThrowing(chain, i, ctx) ==
    IF i > Len(chain) THEN ctx
    ELSE SkipThrowing(chain, i + 1,
                      IF chain[i] = "append" THEN CallBeforeSend("append", i, ctx).value
                      ELSE ctx)

\* C13: compose never fails because a beforeSend hook throws, and its final
\* context is the composed context threaded through the hooks that did not
\* throw, in order; the same holds for executeBeforeSend on chains whose hooks
\* all return a context or throw.
C13_ThrowingBeforeSendSkipped ==
    /\ composeAt # -1
    /\ composeAt = Len(plugins) + 1 =>
          processedContext = SkipThrowing(plugins, 1, composed)
    /\ (pmAt = Len(plugins) + 1 /\ \A i \in DOMAIN plugins : plugins[i] # "nothing") =>
          pmResult = SkipThrowing(plugins, 1, composed)

\* a throwing hook in front of one that adds its message: compose and
\* executeBeforeSend have both returned, with that message at the end
C13_Witness ==
    /\ Len(plugins) >= 2
    /\ plugins[Len(plugins) - 1] = "throws"
    /\ plugins[Len(plugins)] = "append"
    /\ composeAt = Len(plugins) + 1
    /\ pmAt = Len(plugins) + 1
    /\ composed.messages # << >>
    /\ processedContext.messages = Append(composed.messages, Note(Len(plugins)))
    /\ pmResult = processedContext

----------------------------------------------------------------------------
(* Properties of overlapping calls *)

\* C14: at any time at most one sendMessage call is between its start and
\* its outcome, and at most one stream loop runs on the engine.
C14_AtMostOneInFlight ==
    /\ Cardinality({c \in 1..MaxTurns : inflight[c] # "idle"}) <= 1
    /\ Cardinality({c \in 1..MaxTurns : inflight[c] = "streaming"}) <= 1

----------------------------------------------------------------------------
(* Properties of the adapters' stream() *)

\* the lines of the body that arrive complete
CompleteLines == IF terminated \/ lines = << >> THEN lines ELSE SubSeq(lines, 1, Len(lines) - 1)

\* the chunks of a sequence of lines, read line by line: nothing for a
\* malformed line, the sentinel's chunk for [DONE] and nothing after it
RECURSIVE LineChunks(_, _)
LineChunks(prov, ls) ==
    IF ls = << >> THEN << >>
    ELSE IF Head(ls) = "done" THEN <<Chunk(<< >>, 0, "none", TRUE)>>
    ELSE (IF Head(ls) = "malformed" THEN << >> ELSE EventChunks(prov, Head(ls)))
             \o LineChunks(prov, Tail(ls))

OneRead(prov, bytes) ==
    ProcessLines(prov, SplitLines(Decode(<< >>, bytes).text).lines, 1).out

\* C20: however the body is cut into reads, stream() yields the chunks it
\* yields when the same bytes arrive in one read.
C20_ReadsDoNotMatter ==
    sse \in {"ended", "returned"} => yielded = OneRead(provider, Encode(lines, terminated))

\* a read ended between the two bytes of a character of the second line,
\* after the chunk of the first line was yielded
C20_Witness ==
    /\ sse = "reading"
    /\ lines = <<"content", "content">>
    /\ Len(yielded) = 1
    /\ pending = <<"C3">>
    /\ buffer = Marker \o <<"{">>

\* the positions of the terminal chunks among the chunks yielded
Terminals(s) == {i \in DOMAIN s : s[i].done}

\* C21: a stream pulled to its end has yielded exactly one terminal chunk
\* when its body holds a complete finish-reason event or [DONE] line (none
\* otherwise: the end of the stream is then the implicit terminal), and
\* nothing after the terminal chunk; a finish-reason event followed by the
\* [DONE] line does not make two.
C21_OneTerminalChunk ==
    sse \in {"ended", "returned"} =>
        /\ \A i \in Terminals(yielded) : i = Len(yielded)
        /\ (\E j \in DOMAIN CompleteLines : CompleteLines[j] \in {"finish", "done"})
               => Terminals(yielded) # {}

----------------------------------------------------------------------------
(* The outgoing message list: PromptEngine.formatForProvider and the       *)
(* request body of ClaudeProvider                                          *)

\* longest message list shaped
MaxFormat == 2

\* the message contents: empty, blank, and two texts that differ
FormatTexts == {<< >>, <<" ">>, <<"x">>, <<"y">>}

FormatRoles == {"system", "user", "assistant"}

\* the message lists handed to formatForProvider: ids follow the positions
FormatInputs ==
    UNION {{[i \in 1..n |-> [id |-> i, role |-> r[i], content |-> c[i]]] :
               r \in [1..n -> FormatRoles], c \in [1..n -> FormatTexts]} : n \in 0..MaxFormat}

\* `'\n\n'`
BlankLine == <<"\n", "\n">>

RECURSIVE formatForClaudeFrom(_, _, _, _)
\* the loop of formatForClaude from message i on
formatForClaudeFrom(msgs, i, formatted, systemContent) ==
    IF i > Len(msgs) THEN formatted
    ELSE IF msgs[i].role = "system"
         THEN formatForClaudeFrom(msgs, i + 1, formatted,
                                  systemContent \o msgs[i].content \o BlankLine)
         ELSE IF systemContent # << >> /\ formatted = << >>
              THEN formatForClaudeFrom(msgs, i + 1,
                       <<[msgs[i] EXCEPT !.content = systemContent \o @]>>, << >>)
              ELSE formatForClaudeFrom(msgs, i + 1, Append(formatted, msgs[i]), systemContent)

\* `return formatted.length > 0 ? formatted : messages`
formatForClaude(msgs) ==
    LET formatted == formatForClaudeFrom(msgs, 1, << >>, << >>)
    IN IF formatted # << >> THEN formatted ELSE msgs

\* PromptEngine.formatForProvider
formatForProvider(msgs, prov) == IF prov = "claude" THEN formatForClaude(msgs) ELSE msgs

\* `content.trim() === ''`
IsBlank(text) == \A i \in DOMAIN text : text[i] \in {" ", "\n"}

\* the filter of ClaudeProvider.formatMessages
KeptByAdapter(msg) ==
    /\ ~(msg.role = "assistant" /\ IsBlank(msg.content))
    /\ msg.role # "system" => msg.content # << >>

\* the map of ClaudeProvider.formatMessages: a system message becomes a user entry
AdapterEntry(msg) ==
    [role |-> IF msg.role = "assistant" THEN "assistant" ELSE "user", content |-> msg.content]

RECURSIVE formatMessages(_)
\* ClaudeProvider.formatMessages
formatMessages(msgs) ==
    IF msgs = << >> THEN << >>
    ELSE (IF KeptByAdapter(Head(msgs)) THEN <<AdapterEntry(Head(msgs))>> ELSE << >>)
             \o formatMessages(Tail(msgs))

IsSystem(m) == m.role = "system"

NotSystem(m) == m.role # "system"

\* the body ClaudeProvider.stream and chat build: `find` the system entry,
\* `filter` the others
ClaudeBody(msgs) ==
    LET formatted == formatMessages(msgs)
        found == SelectSeq(formatted, IsSystem)
    IN [messages |-> SelectSeq(formatted, NotSystem),
        system |-> IF found # << >> THEN SomePrompt(found[1].content) ELSE NoPrompt]

\* sendMessage step 5: formatForProvider(composedMessages, provider)
FFormat ==
    /\ fstep = "composed"
    /\ formattedMessages' = formatForProvider(composedMessages, vendor)
    /\ fstep' = "formatted"
    /\ UNCHANGED <<wvars, whist, promptCalls, tvars, hvars, cvars, svars, gvars,
                   storage, composedMessages, vendor, body>>

\* sendMessage step 8 with the Anthropic adapter: the request is built from
\* the formatted list
FStream ==
    /\ fstep = "formatted"
    /\ vendor = "claude"
    /\ body' = ClaudeBody(formattedMessages)
    /\ fstep' = "sent"
    /\ UNCHANGED <<wvars, whist, promptCalls, tvars, hvars, cvars, svars, gvars,
                   storage, composedMessages, vendor, formattedMessages>>

\* ClaudeProvider.stream / chat called with a message list as it is
FDirect ==
    /\ fstep = "composed"
    /\ vendor = "claude"
    /\ body' = ClaudeBody(composedMessages)
    /\ fstep' = "direct"
    /\ UNCHANGED <<wvars, whist, promptCalls, tvars, hvars, cvars, svars, gvars,
                   storage, composedMessages, vendor, formattedMessages>>

FormatInit ==
    /\ WindowInit
    /\ config.maxMessages = MaxCap
    /\ config.maxTokens = MaxTokens
    /\ config.systemPromptLocked
    /\ NoOrch
    /\ NoCompose
    /\ NoSSE /\ NoSession
    /\ storage = StorageWorks
    /\ composedMessages \in FormatInputs
    /\ vendor \in {"claude", "openai"}
    /\ formattedMessages = << >>
    /\ body = NoBody
    /\ fstep = "composed"

FormatNext == FFormat \/ FStream \/ FDirect

SpecFormat == FormatInit /\ [][FormatNext]_vars

----------------------------------------------------------------------------
(* Properties of the outgoing message list *)

RECURSIVE SystemContent(_)
\* the system-role contents of a list, in order, each followed by a blank line
SystemContent(msgs) ==
    IF msgs = << >> THEN << >>
    ELSE (IF IsSystem(Head(msgs)) THEN Head(msgs).content \o BlankLine ELSE << >>)
             \o SystemContent(Tail(msgs))

\* the list with every system content merged into its first non-system message
Merged(msgs) ==
    LET rest == SelectSeq(msgs, NotSystem)
    IN <<[rest[1] EXCEPT !.content = SystemContent(msgs) \o @]>> \o Tail(rest)

\* C22: for the vendor 'claude' and a list with at least one non-system
\* message, formatForProvider returns the non-system messages in order, the
\* first of them with all system contents of the list (each followed by a
\* blank line) in front of its content, and no system entry.
C22_SystemMergedIntoFirst ==
    (fstep \in {"formatted", "sent"} /\ vendor = "claude"
       /\ SelectSeq(composedMessages, NotSystem) # << >>)
        => formattedMessages = Merged(composedMessages)

\* C23: for the vendor 'claude' and a non-empty list of system messages only,
\* formatForProvider returns one entry that carries the concatenated system
\* content (with or without the blank line after the last one).
C23_SystemOnlyIsOneEntry ==
    (fstep \in {"formatted", "sent"} /\ vendor = "claude" /\ composedMessages # << >>
       /\ SelectSeq(composedMessages, NotSystem) = << >>)
        => /\ Len(formattedMessages) = 1
           /\ \/ formattedMessages[1].content = SystemContent(composedMessages)
              \/ formattedMessages[1].content \o BlankLine = SystemContent(composedMessages)

\* the message list the adapter was given
AdapterInput == IF fstep = "direct" THEN composedMessages ELSE formattedMessages

\* C27: the body the Anthropic adapter sends has, in its messages array, the
\* entries of the non-system messages only, and its system field is set
\* whenever the list it was given holds a system message.
C27_SystemExtracted ==
    (fstep \in {"sent", "direct"} /\ vendor = "claude")
        => /\ body.messages = formatMessages(SelectSeq(AdapterInput, NotSystem))
           /\ SelectSeq(AdapterInput, IsSystem) # << >> => body.system.set

----------------------------------------------------------------------------
(* sendMessage steps 3-4: compose over the window's context, no plugins     *)

\* the window is filled while no turn is composing
RSetSystemPrompt == fstep = "window" /\ WSetSystemPrompt

RPinMessages == fstep = "window" /\ WPinMessages

RAddMessage == fstep = "window" /\ WAddMessage

\* `context = this.memoryWindow.getContext()` and
\* `composedMessages = await PromptEngine.compose({systemPrompt, messages, plugins})`
\* with an empty plugin list: compose returns `composed`
RCompose ==
    /\ fstep = "window"
    /\ plugins = << >>
    /\ composedMessages' = ComposedMessages(getContextPrompt(systemPrompt), Sendable)
    /\ fstep' = "composed"
    /\ UNCHANGED <<wvars, whist, promptCalls, tvars, hvars, cvars, svars, gvars,
                   storage, vendor, formattedMessages, body>>

RoundTripInit ==
    /\ WindowInit
    /\ NoOrch
    /\ NoCompose
    /\ NoSSE /\ NoSession
    /\ storage = StorageWorks
    /\ composedMessages = << >>
    /\ vendor = "none"
    /\ formattedMessages = << >>
    /\ body = NoBody
    /\ fstep = "window"

RoundTripNext == RSetSystemPrompt \/ RPinMessages \/ RAddMessage \/ RCompose

SpecRoundTrip == RoundTripInit /\ [][RoundTripNext]_vars

\* C24: compose with no plugins returns the window's messages in their
\* order, with one synthesized system message that carries the prompt in
\* front of them if and only if a (non-empty) system prompt is set; without
\* a prompt the output is the input list.
C24_ComposeRoundTrip ==
    fstep = "composed" =>
        LET n == Len(composedMessages) - Len(Sendable)
        IN /\ n = (IF systemPrompt.text # << >> THEN 1 ELSE 0)
           /\ SubSeq(composedMessages, n + 1, Len(composedMessages)) = Sendable
           /\ n = 1 => /\ composedMessages[1].role = "system"
                       /\ composedMessages[1].content = systemPrompt.text

\* a prompt and two window messages were composed: three messages, the
\* system message first
C24_Witness ==
    /\ fstep = "composed"
    /\ systemPrompt.text = Xs(4)
    /\ Len(Sendable) = 2
    /\ Len(composedMessages) = 3
    /\ composedMessages[1].role = "system"

----------------------------------------------------------------------------
(* Turns of an orchestrator with persistence, over stores that may fail *)

PersistInit ==
    /\ WindowInit
    /\ config.maxMessages = MaxCap
    /\ config.maxTokens = MaxTokens
    /\ config.systemPromptLocked
    /\ OrchInit([providerKnown |-> TRUE, afterHooks |-> 0, persistence |-> TRUE])
    /\ hooks = << >>
    /\ NoCompose
    /\ NoSSE /\ NoSession
    /\ storage \in Storages
    /\ NoFormat

PersistNext == TSend \/ TOpenStream \/ TChunk \/ TStreamEnd \/ TPersisted

SpecPersist == PersistInit /\ [][PersistNext]_vars

\* the streamHandler.onComplete of turn t has run to its end
CompleteOver(t) ==
    /\ t < turn \/ pc = "idle"
    /\ \A i \in DOMAIN completions : completions[i].turn # t

\* C25: when a save of the persistence layer fails after a completed turn,
\* the turn does not fail: the completion callback was invoked once, no
\* error was reported, the call resolved, and the assistant message is in
\* the transcript.
C25_PersistFailureHarmless ==
    \A t \in 1..turn :
        (storage # StorageWorks /\ CompleteOver(t)) =>
            /\ calls[t].complete = 1
            /\ calls[t].error = 0
            /\ thrown[t] = "none"
            /\ (t = turn) => /\ outcome.kind = "resolved"
                             /\ IdInList(AsstId(t), messages)

\* both saves failed after the first turn: no snapshot was written, the
\* callback ran and the assistant message is in the transcript
C25_Witness ==
    /\ storage = [local |-> "throws", db |-> "rejects"]
    /\ turn = 1
    /\ pc = "idle"
    /\ completions = << >>
    /\ recent = << >>
    /\ calls[1].complete = 1
    /\ IdInList(AsstId(1), messages)

----------------------------------------------------------------------------
(* Properties of the turn's result *)

\* `message.finishReason` as a caller reads it off the returned message:
\* undefined when the object has no such field
FinishReasonOf(m) == IF "finishReason" \in DOMAIN m THEN m.finishReason ELSE "undefined"

\* C26: when a turn ends on a terminal chunk that carries a finish reason,
\* the message sendMessage resolves with reports that finish reason.
C26_FinishReasonReported ==
    (outcome.kind = "resolved" /\ outcome.exit = "terminal"
       /\ stream[Len(stream)].fin # "none")
        => FinishReasonOf(outcome.msg) = stream[Len(stream)].fin

----------------------------------------------------------------------------
(* Turns whose text, or whose stream, may be empty *)

\* texts a caller submits, the empty string among them
AnyTexts == {<< >>, <<"q">>}

ESend == \E content \in AnyTexts : Send(content)

EmptyInit ==
    /\ WindowInit
    /\ config.maxMessages = MaxCap
    /\ config.maxTokens = MaxTokens
    /\ config.systemPromptLocked
    /\ OrchInit([providerKnown |-> TRUE, afterHooks |-> 0, persistence |-> FALSE])
    /\ hooks = << >>
    /\ NoCompose
    /\ NoSSE /\ NoSession
    /\ storage = StorageWorks
    /\ NoFormat

EmptyNext == ESend \/ TOpenStream \/ TChunk \/ TStreamEnd \/ TCancel

SpecEmpty == EmptyInit /\ [][EmptyNext]_vars

\* C28: every non-system message of the transcript has a non-empty content
\* or a non-empty tool-call list.
C28_NoEmptyMessages ==
    \A i \in DOMAIN messages :
        messages[i].role # "system" =>
            messages[i].content # << >> \/ messages[i].tool_calls # 0

----------------------------------------------------------------------------
(* Properties of the window's ceiling and token budget *)

\* C29: a call of addMessage / addMessages (a step that changes the transcript
\* and leaves it non-empty, under an unchanged configuration) puts the
\* messages at the end and drops only from the oldest end, the transcript
\* then holds at most maxMessages entries, and the pinned set is unchanged.
C29_AppendReappliesCeiling ==
    [][(messages' # messages /\ messages' # << >> /\ config' = config) =>
          /\ pinnedMessages' = pinnedMessages
          /\ Len(messages') <= config.maxMessages
          /\ \E ms \in SeqsUpTo(WinMsgs, 2) :
                /\ ms # << >>
                /\ IsSuffix(messages', messages \o ms)
                /\ Len(messages') = Min(Len(messages) + Len(ms), config.maxMessages)]_vars

----------------------------------------------------------------------------
(* The token budget, over messages of which two fit the budget together *)

\* largest id of the messages offered
MaxTokenId == 3

\* one message per id: ids 1 and 3 cost one token, id 2 costs two
TokenMsgs == {[id |-> i, role |-> "user", content |-> WinText(i)] : i \in 1..MaxTokenId}

KAddMessage ==
    \E m \in TokenMsgs :
        /\ Len(messages) < MaxAppends
        /\ addMessage(m)
        /\ UNCHANGED <<xvars, gvars, whist, promptCalls, tvars>>

KPinMessages ==
    \E ms \in SeqsUpTo(TokenMsgs, MaxPinned) :
        /\ pinMessages(ms)
        /\ UNCHANGED <<xvars, gvars, whist, promptCalls, tvars>>

TokensNext == KAddMessage \/ KPinMessages \/ WSetSystemPrompt

SpecTokens == WInit /\ [][TokensNext]_vars

\* the list trimByTokens is given: pinned, then recent, without duplicate ids
Candidates == Dedup(pinnedMessages \o SliceLast(messages, config.maxMessages))

\* s is the longest suffix of c whose cost, on top of base, is within max
LongestSuffixWithin(s, c, base, max) ==
    /\ IsSuffix(s, c)
    /\ base + Cost(s) <= max
    /\ Len(s) < Len(c) => base + Cost(s) + estimateTokens(c[Len(c) - Len(s)].content) > max

\* C30 as stated: the sendable list is the longest suffix of the candidate
\* list whose summed message cost does not exceed maxTokens.
C30_LongestSuffixInBudget == LongestSuffixWithin(Sendable, Candidates, 0, config.maxTokens)

\* the estimate of the system prompt, 0 when there is none
PromptCost == IF Truthy(systemPrompt) THEN estimateTokens(systemPrompt.text) ELSE 0

\* C30 amended: with maxTokens > 0 the sendable list is the longest suffix
\* of the candidate list whose cost, added to the cost of the system prompt,
\* does not exceed maxTokens; when not even the newest message fits it is that
\* message alone; with maxTokens <= 0 it is the whole candidate list.
C30_LongestSuffixWithPrompt ==
    IF config.maxTokens <= 0 THEN Sendable = Candidates
    ELSE IF Candidates = << >> THEN Sendable = << >>
    ELSE IF PromptCost + estimateTokens(Candidates[Len(Candidates)].content) <= config.maxTokens
         THEN /\ Sendable # << >>
              /\ LongestSuffixWithin(Sendable, Candidates, PromptCost, config.maxTokens)
         ELSE Sendable = <<Candidates[Len(Candidates)]>>

\* two one-token messages and a one-token prompt under a budget of two: only
\* the newer message is sent
C30_Witness ==
    /\ config.maxTokens = 2
    /\ PromptCost = 1
    /\ Len(Candidates) = 2
    /\ Cost(Candidates) = 2
    /\ Sendable = <<Candidates[2]>>

----------------------------------------------------------------------------
(* Further properties of the window *)

\* C31: the list returned by getContext holds no two messages of the same
\* id, and a message in it whose id is pinned is the pinned message, not the
\* transcript entry of that id.
C31_NoDuplicateIds ==
    /\ \A i, j \in DOMAIN Sendable : Sendable[i].id = Sendable[j].id => i = j
    /\ \A i \in DOMAIN Sendable :
          IdInList(Sendable[i].id, pinnedMessages) => InList(Sendable[i], pinnedMessages)

\* a pinned message and a transcript entry of the same id with another
\* content: the pinned one is sent, the entry is not
C31_Witness ==
    /\ Len(pinnedMessages) = 1
    /\ \E k \in DOMAIN messages :
          /\ messages[k].id = pinnedMessages[1].id
          /\ messages[k] # pinnedMessages[1]
          /\ ~InList(messages[k], Sendable)
    /\ InList(pinnedMessages[1], Sendable)

----------------------------------------------------------------------------
(* The window with a pinned set of more than one message, and clear() *)

\* largest pinned set offered
MaxClearPinned == 2

XPinMessages ==
    \E ms \in SeqsUpTo(WinMsgs, MaxClearPinned) :
        /\ pinMessages(ms)
        /\ UNCHANGED <<xvars, gvars, whist, promptCalls, tvars>>

ClearNext == XPinMessages \/ WAddMessage \/ WSetSystemPrompt \/ WClear

SpecClear == WInit /\ [][ClearNext]_vars

\* C32: clear() empties the transcript and leaves the system prompt, the
\* pinned set and the configuration as they were; getContext then returns the
\* same system prompt and every pinned message.
C32_ClearKeepsPromptAndPinned ==
    [][(messages # << >> /\ messages' = << >>) =>
          /\ getAllMessages' = << >>
          /\ systemPrompt' = systemPrompt
          /\ pinnedMessages' = pinnedMessages
          /\ config' = config
          /\ getContextPrompt(systemPrompt') = getContextPrompt(systemPrompt)
          /\ \A i \in DOMAIN pinnedMessages : InList(pinnedMessages[i], Sendable')]_vars

----------------------------------------------------------------------------
(* Turns of a caller that passes its own signal *)

\* the caller aborts the signal it passed in the options
GAbort ==
    /\ signal = "live"
    /\ pc = "streaming"
    /\ signal' = "aborted"
    /\ UNCHANGED <<wvars, whist, promptCalls, tvars, xvars, adapterSignal, delivered, sessionId, saved>>

\* a caller starts a turn with a signal that is not aborted yet
GSend == signal # "aborted" /\ TSend

\* the body of a request whose signal is aborted does not end normally: the
\* pending read rejects
GStreamEnd == ~(signal = "aborted" /\ adapterSignal = CallerSignal) /\ TStreamEnd

\* a known provider, no plugins, no persistence; the caller passes a signal
\* with every call, or none
SignalInit ==
    /\ WindowInit
    /\ config.maxMessages = MaxCap
    /\ config.maxTokens = MaxTokens
    /\ config.systemPromptLocked
    /\ NoOrch
    /\ NoCompose
    /\ NoSSE
    /\ storage = StorageWorks
    /\ NoFormat
    /\ signal \in {"none", "live"}
    /\ adapterSignal = NoSignal
    /\ delivered = << >>
    /\ sessionId = NoSessionId
    /\ saved = {}

SignalNext ==
    \/ GSend
    \/ TOpenStream
    \/ TChunk
    \/ TStreamError
    \/ GStreamEnd
    \/ TCancel
    \/ GAbort

SpecSignal == SignalInit /\ [][SignalNext]_vars

\* C33: while a turn streams for a caller that passed no signal, the adapter
\* holds the signal of the controller that cancel() aborts in this turn; and
\* a turn during which the caller aborted its own signal settles as a
\* cancellation, resolved with what was accumulated.
C33_SignalShared ==
    /\ (pc = "streaming" /\ signal = "none") => adapterSignal = EngineSignal(turn)
    /\ (pc = "idle" /\ turn > 0 /\ signal = "aborted") =>
          (outcome.kind = "resolved" /\ outcome.exit = "abort")

----------------------------------------------------------------------------
(* The assistant message while it is built and after it is appended *)

IsPrefix(s, t) == Len(s) <= Len(t) /\ s = SubSeq(t, 1, Len(s))

\* C34: a step that keeps the engine's current message (same id) only extends
\* its content, and a step changes neither the content nor the tool calls of
\* a message that is in the transcript.
C34_AppendOnlyThenFrozen ==
    [][/\ (currentMessage'.id = currentMessage.id) =>
              IsPrefix(currentMessage.content, currentMessage'.content)
       /\ \A i \in DOMAIN messages : \A j \in DOMAIN messages' :
              messages'[j].id = messages[i].id =>
                  /\ messages'[j].content = messages[i].content
                  /\ messages'[j].tool_calls = messages[i].tool_calls]_vars

----------------------------------------------------------------------------
(* The caller's callbacks *)

\* C35: a settled turn in which nothing was thrown has had onComplete invoked
\* once and onError never; a settled turn in which something was thrown has
\* had onError invoked once and onComplete never.
C35_OneTerminalCallback ==
    \A t \in 1..turn :
        CompleteOver(t) =>
            IF thrown[t] = "none"
            THEN calls[t].complete = 1 /\ calls[t].error = 0
            ELSE calls[t].error = 1 /\ calls[t].complete = 0

RECURSIVE Flat(_)
\* the in-order concatenation of a list of strings
Flat(ss) == IF ss = << >> THEN << >> ELSE Head(ss) \o Flat(Tail(ss))

\* C36: the strings passed to the caller's onChunk in a turn, concatenated in
\* order, are the content of the engine's message: while the turn streams,
\* and when it has resolved (completed or cancelled).
C36_ChunksAreTheContent ==
    /\ pc = "streaming" => Flat(delivered) = currentMessage.content
    /\ outcome.kind = "resolved" => Flat(delivered) = outcome.msg.content

\* a turn cancelled after one text chunk was applied: the chunk that arrived
\* after the abort is neither in the message nor reported
C36_Witness ==
    /\ outcome.kind = "resolved"
    /\ outcome.exit = "abort"
    /\ Len(stream) = 2
    /\ Len(delivered) = 1
    /\ outcome.msg.content = delivered[1]

----------------------------------------------------------------------------
(* The token budget of the sendable list *)

\* C37: with a positive maxTokens, a sendable list of two or more messages
\* costs, together with the system prompt, at most maxTokens; a non-empty
\* sendable list that exceeds the budget is the newest candidate alone.
C37_WithinBudgetUnlessFallback ==
    config.maxTokens > 0 =>
        /\ Len(Sendable) >= 2 => PromptCost + Cost(Sendable) <= config.maxTokens
        /\ (Sendable # << >> /\ PromptCost + Cost(Sendable) > config.maxTokens) =>
               Sendable = <<Candidates[Len(Candidates)]>>

\* three candidates of which the two newest are sent and use up the budget
C37_Witness ==
    /\ config.maxTokens = 2
    /\ Len(Candidates) = 3
    /\ Len(Sendable) = 2
    /\ PromptCost + Cost(Sendable) = 2

----------------------------------------------------------------------------
(* Hooks that return nothing *)

\* C38: when every afterReceive hook returns its response or nothing, and
\* one of them returns nothing, the value appended to the transcript by the
\* turn's completion is the assistant Message the engine produced, and the
\* transcript holds well-formed messages only.
C38_SilentHookIsIdentity ==
    (/\ outcome.kind = "resolved"
     /\ calls[outcome.turn].complete > 0
     /\ \E i \in DOMAIN hooks : hooks[i] = "nothing"
     /\ \A i \in DOMAIN hooks : hooks[i] \in {"same", "nothing"}) =>
        /\ \A i \in DOMAIN messages : WellFormed(messages[i])
        /\ InList(outcome.msg, messages)

----------------------------------------------------------------------------
(* The session a persistent orchestrator stores *)

\* OrchestratorConfig.sessionId: not configured, or a string
SessionIds == {NoSessionId, "s1"}

\* new ConversationOrchestrator({enablePersistence: true, sessionId?}): a
\* known provider, no plugins, stores that work
SessionInit ==
    /\ WindowInit
    /\ config.maxMessages = MaxCap
    /\ config.maxTokens = MaxTokens
    /\ config.systemPromptLocked
    /\ OrchInit([providerKnown |-> TRUE, afterHooks |-> 0, persistence |-> TRUE])
    /\ hooks = << >>
    /\ NoCompose
    /\ NoSSE
    /\ storage = StorageWorks
    /\ NoFormat
    /\ signal = "none"
    /\ adapterSignal = NoSignal
    /\ delivered = << >>
    /\ sessionId \in SessionIds
    /\ saved = {}

SessionNext == TSend \/ TOpenStream \/ TChunk \/ TStreamEnd \/ TPersisted

SpecSession == SessionInit /\ [][SessionNext]_vars

\* C39: the conversations one orchestrator has stored are all under one
\* session id, whether or not a sessionId was configured.
C39_OneStoredSession == Cardinality(saved) <= 1

----------------------------------------------------------------------------
(* The end of the response body *)

\* C40: when the body ends without a [DONE] line, stream() has ended without
\* failing and has yielded the chunks of every line of the body, the last
\* line included when no newline follows it.
C40_NothingLostAtClose ==
    /\ sse # "failed"
    /\ sse = "ended" => yielded = LineChunks(provider, lines)

=============================================================================
